---- MODULE Spec2Model ----
(***************************************************************************)
(* The Nebula mesh core of the happy client: NebulaManagerImpl (status),   *)
(* LocalRelayImpl (role, registry, routing, simulated transport) and       *)
(* NebulaSocket (rpc / emitWithAck correlation with timeouts).             *)
(*                                                                         *)
(* Time is in milliseconds.  Strings stand for JavaScript strings; the     *)
(* string "undefined" stands for the JavaScript value undefined.           *)
(***************************************************************************)
EXTENDS Integers, Sequences, FiniteSets, TLC

VARIABLES
    platform,       \* Platform.OS of this device
    localUrl,       \* EXPO_PUBLIC_HAPPY_SERVER_URL is unset or names localhost
    nmConfig,       \* NebulaManagerImpl.config
    nmStorage,      \* nebulaStorage 'config' key
    nmStatus,       \* NebulaManagerImpl.status
    monitors,       \* LocalRelay subscriptions in NebulaManagerImpl.statusListeners
                    \* (each comes with one setInterval sweep timer)
    isServer,       \* LocalRelayImpl.isServer
    isRunning,      \* LocalRelayImpl.isRunning
    peers,          \* LocalRelayImpl.peers, a Map in insertion order
    server,         \* LocalRelayImpl.server # null
    clientSocket,   \* LocalRelayImpl.clientSocket # null
    encryption,     \* LocalRelayImpl.encryption # null
    transport,      \* pending setTimeout callbacks of sendToPeer / sendToServer
    lastSend,       \* what the LocalRelay.sendMessage call of the last step did
                    \* (NoSend when the last step called none)
    sockEncryption, \* NebulaSocket.encryption # null
    listeners,      \* LocalRelay 'message' listeners of pending calls, in order
    calls,          \* the promises returned by NebulaSocket.rpc / emitWithAck
    now,            \* Date.now()
    messageHandlers,\* LocalRelayImpl.messageHandlers, a Map from type to handler
    displaced,      \* the <<type, handler>> registrations a later onMessage replaced
    lastIn,         \* what the handleIncomingMessage call of the last step did
                    \* (NoIn when the last step called none)
    micro,          \* suspended routeMessage calls (continuations in the microtask queue)
    sends,          \* LocalRelay.sendMessage calls made so far by the ordered sender
    credentials,    \* TokenStorage: the stored AuthCredentials.secret ("null" when none)
    lastAuth,       \* what the last setup / join / QR operation returned
    allocated,      \* mesh addresses the other devices of the mesh were assigned
    peerListeners,  \* NebulaSocket listens to 'peerConnected' / 'peerDisconnected'
    emitted,        \* the events those listeners were called with in the last step,
                    \* in order
    subscribed,     \* the observed status listener is in NebulaManagerImpl.statusListeners
    published,      \* the statuses updateStatus published since that listener subscribed,
                    \* while it was subscribed
    received,       \* the statuses that listener was called with since it subscribed
    consumed,       \* the payload NebulaAuth.joinNetwork consumed last, and how many
                    \* times in a row it has consumed it
    derived,        \* the last deriveSharedSecret call: its inputs, its time, its result
    memo,           \* the earlier deriveSharedSecret calls: <<inputs, result>>
    departed,       \* the peers those listeners heard 'peerDisconnected' for so far
    currentStatus   \* NebulaSocket.currentStatus

envVars   == <<platform, localUrl>>
nmVars    == <<nmConfig, nmStorage, nmStatus>>
relayVars == <<isServer, isRunning, peers, server, clientSocket, encryption, monitors>>
sockVars  == <<sockEncryption, listeners, calls>>
inVars    == <<messageHandlers, displaced>>
fifoVars  == <<micro, sends>>
authVars  == <<credentials, lastAuth, allocated>>
logVars   == <<published, received>>
deriveVars == <<derived, memo>>
vars      == <<envVars, nmVars, relayVars, transport, lastSend, sockVars, now,
               inVars, lastIn, fifoVars, authVars, peerListeners, emitted, subscribed,
               logVars,
               consumed, deriveVars, departed, currentStatus>>

----------------------------------------------------------------------------
(* Bounds of the model *)

MaxCalls    == 2    \* rpc / emitWithAck calls made in one behaviour
MaxTicks    == 2    \* clock steps taken in one behaviour
MaxInFlight == 2    \* pending transport timers
MaxMonitors == 1    \* LocalRelay.start calls that start peer monitoring
MaxSends    == 3    \* sendMessage calls of the ordered sender
MaxQueued   == 4    \* hand-offs of the ordered sender that are set or still to set
MaxConsumptions == 2 \* consecutive consumptions of one payload that are counted
MaxDerived  == 2    \* deriveSharedSecret calls that are remembered
MaxPeerTicks == 3   \* sweep intervals that pass in one behaviour
MaxLog      == 2    \* statuses published while the observed listener is subscribed

(* Program constants *)

RpcTimeoutMs == 30000
AckTimeoutMs == 15000
PeerDelayMs == 10
ServerDelayMs == 5
MaxAgeMs == 300000
SweepIntervalMs == 30000
StaleTimeoutMs == 60000

TickMs == AckTimeoutMs
MaxNow == MaxTicks * TickMs

serverIP  == "10.42.0.1"
Undefined == "undefined"
MeshIPs   == {"10.42.0.1", "10.42.0.2", "10.42.0.3"}
Platforms == {"web", "ios", "macos"}

Truthy(s) == s \notin {Undefined, ""}

Range(s) == {s[i] : i \in DOMAIN s}

----------------------------------------------------------------------------
(* Payloads.  A payload is a record of one shape:                          *)
(*   enc    layers of ApiEncryption.encryptRaw around the whole payload    *)
(*   bad    the ciphertext does not decrypt                                *)
(*   kind   "none" (undefined / null), "plain", "rpc-call", "rpc-response",*)
(*          "ack", "emit"                                                  *)
(*   id     correlation id (rpcMessage.id, _ackId), 0 when absent          *)
(*   ok     RpcResponse.ok                                                 *)
(*   method rpcMessage.method prefix (the listernerId)                     *)
(*   val    params / result / error text                                   *)
(*   inner  layers of encryptRaw around params / result alone              *)
(*   innerBad  that inner ciphertext does not decrypt                      *)

Payload(kind, id, ok, method, val, inner, innerBad) ==
    [enc |-> 0, bad |-> FALSE, kind |-> kind, id |-> id, ok |-> ok,
     method |-> method, val |-> val, inner |-> inner, innerBad |-> innerBad]

NoData == Payload("none", 0, FALSE, "", "", 0, FALSE)
Plain(v) == Payload("plain", 0, FALSE, "", v, 0, FALSE)

DataTruthy(d) == d.kind # "none"

EncryptRaw(d) == [d EXCEPT !.enc = @ + 1]
DecryptOk(d) == d.enc > 0 /\ ~d.bad
DecryptRaw(d) == [d EXCEPT !.enc = @ - 1]

EncryptInner(d) == [d EXCEPT !.inner = @ + 1]
DecryptInnerOk(d) == d.inner > 0 /\ ~d.innerBad

\* lastIn after a step that called no handleIncomingMessage: dropped says the
\* call ended at a failed decryption, invoked lists the type handlers called,
\* in call order.
NoIn == [dropped |-> FALSE, invoked |-> <<>>]

\* lastSend after a step that called no sendMessage.
NoSend == [message |-> [type |-> "", data |-> NoData, to |-> Undefined,
                        from |-> Undefined, timestamp |-> 0],
           asServer |-> FALSE, threw |-> FALSE, out |-> <<>>]

----------------------------------------------------------------------------
(* NebulaManagerImpl *)

NoConfig == [nodeIP |-> "null", isLighthouse |-> FALSE, caCert |-> "null"]

\* A NebulaStatus; ip is the stray field setupPrivacyModeConfig publishes.
Status(st, nodeIP, ps, err, ip) ==
    [status |-> st, nodeIP |-> nodeIP, peers |-> ps, error |-> err, ip |-> ip]

\* The peers arrays a status may carry: mesh addresses seen, ascending.
Arrays == {<<>>, <<"10.42.0.2">>, <<"10.42.0.1", "10.42.0.2">>,
           <<"10.42.0.2", "10.42.0.3">>, <<"10.42.0.1", "10.42.0.2", "10.42.0.3">>}

PeerIds == [i \in DOMAIN peers |-> peers[i].id]

Peer(ip, t) == [id |-> ip, nodeIP |-> ip, connectedAt |-> t, lastSeen |-> t]

\* LocalRelayImpl.updatePeerList: add the new peers in array order, refresh
\* lastSeen of the known ones, then drop the peers absent from the array.
RECURSIVE AddPeers(_, _, _)
AddPeers(reg, arr, t) ==
    IF arr = <<>> THEN reg
    ELSE LET ip == Head(arr)
             known == \E i \in DOMAIN reg : reg[i].id = ip
             reg2 == IF known
                     THEN [i \in DOMAIN reg |->
                             IF reg[i].id = ip THEN [reg[i] EXCEPT !.lastSeen = t]
                             ELSE reg[i]]
                     ELSE Append(reg, Peer(ip, t))
         IN AddPeers(reg2, Tail(arr), t)

UpdatePeerList(reg, arr, t) ==
    SelectSeq(AddPeers(reg, arr, t), LAMBDA p : p.nodeIP \in Range(arr))

\* An event LocalRelay emits about a peer of its registry.
PeerEvent(ev, ip) == [ev |-> ev, peer |-> ip]

\* The status listener of NebulaSocket.initializeNebula: the socket status it
\* sets for a status of NebulaManager.
SocketStatusOf(status) ==
    IF status.status \in {"connected", "error"} THEN status.status ELSE "disconnected"

\* The peers heard of as disconnected once the listeners were called with events.
DepartedAfter(events) ==
    departed \cup {events[i].peer : i \in {j \in DOMAIN events :
                                                events[j].ev = "peerDisconnected"}}

\* A variant of the membership test of updatePeerList that takes every
\* observed peer for a new one.
PeerIsNewAlways(reg, ip) == TRUE

\* A variant of the membership test that remembers the peers heard of as
\* disconnected and never takes one of them for a new peer.
PeerIsNewUnheard(reg, ip) ==
    (~\E i \in DOMAIN reg : reg[i].id = ip) /\ ip \notin departed

\* The test of updatePeerList for a new peer: !this.peers.has(peerIP)
PeerIsNew(reg, ip) == ~\E i \in DOMAIN reg : reg[i].id = ip

\* The 'peerConnected' events of the first loop of updatePeerList, in order.
RECURSIVE AddEvents(_, _, _)
AddEvents(reg, arr, t) ==
    IF arr = <<>> THEN <<>>
    ELSE LET ip == Head(arr)
         IN IF PeerIsNew(reg, ip)
            THEN <<PeerEvent("peerConnected", ip)>>
                 \o AddEvents(Append(reg, Peer(ip, t)), Tail(arr), t)
            ELSE AddEvents(reg, Tail(arr), t)

\* The events updatePeerList emits: 'peerConnected' for the peers it adds,
\* then 'peerDisconnected' for the peers it deletes, in Map order.
UpdatePeerListEvents(reg, arr, t) ==
    LET gone == SelectSeq(AddPeers(reg, arr, t), LAMBDA p : p.nodeIP \notin Range(arr))
    IN AddEvents(reg, arr, t)
       \o [i \in DOMAIN gone |-> PeerEvent("peerDisconnected", gone[i].id)]

\* The registry, and the events emitted, after the monitoring listener of
\* LocalRelay was called with the statuses ss, one after the other.
RECURSIVE NotifyPeers(_, _, _)
NotifyPeers(reg, ss, t) ==
    IF ss = <<>> THEN reg
    ELSE NotifyPeers(UpdatePeerList(reg, Head(ss).peers, t), Tail(ss), t)

RECURSIVE NotifyEvents(_, _, _)
NotifyEvents(reg, ss, t) ==
    IF ss = <<>> THEN <<>>
    ELSE UpdatePeerListEvents(reg, Head(ss).peers, t)
         \o NotifyEvents(UpdatePeerList(reg, Head(ss).peers, t), Tail(ss), t)

\* A variant of the listener calls that reports only the last status of an operation.
DeliverLast(log, ss) == Append(log, ss[Len(ss)])

\* What a status listener has been called with after updateStatus published
\* the statuses ss: statusListeners.forEach(listener => listener(newStatus)).
Deliver(log, ss) == log \o ss

\* NebulaManagerImpl.updateStatus, called with the statuses ss one after the
\* other: each is stored and given to every listener; a LocalRelay monitoring
\* listener runs updatePeerList(status.peers).
UpdateStatuses(ss) ==
    /\ subscribed => Len(published) + Len(ss) <= MaxLog
    /\ nmStatus' = ss[Len(ss)]
    /\ peers' = IF monitors > 0 THEN NotifyPeers(peers, ss, now) ELSE peers
    /\ emitted' = IF monitors > 0 /\ peerListeners THEN NotifyEvents(peers, ss, now)
                   ELSE <<>>
    /\ departed' = DepartedAfter(emitted')
    /\ currentStatus' = IF peerListeners THEN SocketStatusOf(ss[Len(ss)])
                         ELSE currentStatus
    /\ published' = IF subscribed THEN published \o ss ELSE published
    /\ received' = IF subscribed THEN Deliver(received, ss) ELSE received

\* NebulaManagerImpl.updateStatus
UpdateStatus(newStatus) == UpdateStatuses(<<newStatus>>)

\* The status setupAsCA and joinNetwork publish first.
Connecting == Status("connecting", Undefined, <<>>, "", Undefined)

\* A variant of the address choice that starts at the first address of the block.
RequestNodeIPFromFirst(os) == IF os = "ios" THEN "10.42.0.1"
                              ELSE IF os = "android" THEN "10.42.0.2" ELSE "10.42.0.3"

\* NebulaManagerImpl.requestNodeIP on a device of platform os
RequestNodeIPOf(os) == IF os = "ios" THEN "10.42.0.2"
                       ELSE IF os = "android" THEN "10.42.0.3" ELSE "10.42.0.4"

\* NebulaManagerImpl.requestNodeIP
RequestNodeIP == RequestNodeIPOf(platform)

\* A pairing payload (QR data), parsed.  One shape for the payloads of
\* NebulaManager and of NebulaAuth:
\*   version      the version field
\*   caCert       the caCert field
\*   caKey        the caKey field, "" when absent
\*   lighthouseIP lighthouses[0] / lighthouseIP
\*   auth         authChallenge, authSignature, authPublicKey, timestamp are present
\*   timestamp    the timestamp field, 0 when absent
\*   sigValid     authSignature is a signature of authChallenge under authPublicKey
\*   net          not a field: the root certificate of the network of the hub
\*                that produced the payload
Qr(version, cert, caKey, lighthouseIP, auth, timestamp, sigValid, net) ==
    [version |-> version, caCert |-> cert, caKey |-> caKey, lighthouseIP |-> lighthouseIP,
     auth |-> auth, timestamp |-> timestamp, sigValid |-> sigValid, net |-> net]

NoQr == Qr("", "", "", "", FALSE, 0, FALSE, "")

\* What a setup / join / QR operation returned: success is FALSE when it threw
\* or returned success = false, error is then the message, qr the payload
\* it returned (NoQr when none).
AuthResult(op, success, error, qr) ==
    [op |-> op, success |-> success, error |-> error, qr |-> qr]

NoAuth == AuthResult("", FALSE, "", NoQr)

\* generateCACertificate and the nodeKey of generateNodeCertificate: fresh
\* random strings, the second a private key.
GenerateCACertificate == "CA_CERT_random"
NodeKey == "NODE_KEY_random"

\* NebulaManagerImpl.generateJoinQRData with this.config = config
GenerateJoinQRData(config) ==
    IF config = NoConfig \/ ~config.isLighthouse
    THEN AuthResult("generateJoinQRData", FALSE,
                    "Only lighthouse nodes can generate join data", NoQr)
    ELSE AuthResult("generateJoinQRData", TRUE, "",
                    Qr("1.0", config.caCert, NodeKey, config.nodeIP, FALSE, 0, FALSE,
                       config.caCert))

\* The configuration setupAsCA creates.
HubConfig == [nodeIP |-> serverIP, isLighthouse |-> TRUE, caCert |-> GenerateCACertificate]

\* NebulaManagerImpl.setupAsCA, on success: configuration, storage, status
SetupAsCAEffect ==
    /\ nmConfig' = HubConfig
    /\ nmStorage' = nmConfig'
    /\ UpdateStatuses(<<Connecting, Status("connected", serverIP, <<>>, "", Undefined)>>)

\* NebulaManagerImpl.setupAsCA, on success; it returns generateJoinQRData().
SetupAsCA ==
    /\ SetupAsCAEffect
    /\ lastAuth' = [GenerateJoinQRData(nmConfig') EXCEPT !.op = "setupAsCA"]
    /\ lastSend' = NoSend
    /\ lastIn' = NoIn
    /\ UNCHANGED <<envVars, peerListeners, deriveVars, subscribed, consumed, inVars, fifoVars, credentials, allocated, isServer, isRunning,
                   server, clientSocket, encryption, monitors, transport, sockVars, now>>

\* NebulaManagerImpl.joinNetwork(qrData), on success: configuration, storage,
\* status.  Of the payload it reads caCert, caKey and lighthouses.
JoinNetworkEffect(q) ==
    /\ nmConfig' = [nodeIP |-> RequestNodeIP, isLighthouse |-> FALSE, caCert |-> q.caCert]
    /\ nmStorage' = nmConfig'
    /\ UpdateStatuses(<<Connecting, Status("connected", RequestNodeIP, <<>>, "", Undefined)>>)

\* NebulaManagerImpl.joinNetwork(qrData), on success
JoinNetwork(q) ==
    /\ JoinNetworkEffect(q)
    /\ lastAuth' = AuthResult("NebulaManager.joinNetwork", TRUE, "", NoQr)
    /\ lastSend' = NoSend
    /\ lastIn' = NoIn
    /\ UNCHANGED <<envVars, peerListeners, deriveVars, subscribed, consumed, inVars, fifoVars, credentials, allocated, isServer, isRunning,
                   server, clientSocket, encryption, monitors, transport, sockVars, now>>

\* A variant of the catch blocks that leaves the status at 'connecting'.
FailureStatusKeeps(message) == Connecting

\* The status the catch blocks of setupAsCA and joinNetwork publish:
\* { status: 'error', peers: [], error: error.message }
FailureStatus(message) == Status("error", Undefined, <<>>, message, Undefined)

\* The messages of the errors parseJoinQRData and the reading of the parsed
\* data raise: a string that is not JSON, and the JSON text null.
ParseErrors == {"Invalid QR code data", "Cannot read properties of null (reading 'caCert')"}

\* The messages of the errors of the collaborators (generateSecureRandom,
\* nebulaStorage.set).
RandomError == "random source unavailable"
StorageError == "storage write failed"

\* NebulaManagerImpl.setupAsCA fails: generateSecureRandom throws before the
\* configuration is made ("generate"), or saveConfig throws after it was
\* assigned ("save").  The catch block publishes the error status and
\* throws the error on.
SetupAsCAFails(step) ==
    LET message == IF step = "generate" THEN RandomError ELSE StorageError
    IN /\ nmConfig' = IF step = "save" THEN HubConfig ELSE nmConfig
       /\ UpdateStatuses(<<Connecting, FailureStatus(message)>>)
       /\ lastAuth' = AuthResult("setupAsCA", FALSE, message, NoQr)
       /\ lastSend' = NoSend
       /\ lastIn' = NoIn
       /\ UNCHANGED <<envVars, peerListeners, deriveVars, subscribed, consumed, inVars, fifoVars,
                      credentials, allocated, nmStorage, isServer, isRunning, server,
                      clientSocket, encryption, monitors, transport, sockVars, now>>

\* NebulaManagerImpl.joinNetwork(qrData) fails on data it cannot read.
JoinNetworkInvalid(message) ==
    /\ UpdateStatuses(<<Connecting, FailureStatus(message)>>)
    /\ lastAuth' = AuthResult("NebulaManager.joinNetwork", FALSE, message, NoQr)
    /\ lastSend' = NoSend
    /\ lastIn' = NoIn
    /\ UNCHANGED <<envVars, peerListeners, deriveVars, subscribed, consumed, inVars, fifoVars,
                   credentials, allocated, nmConfig, nmStorage, isServer, isRunning, server,
                   clientSocket, encryption, monitors, transport, sockVars, now>>

\* NebulaManagerImpl.joinNetwork(qrData) fails at saveConfig, after the
\* configuration was assigned.
JoinNetworkSaveFails(q) ==
    /\ nmConfig' = [nodeIP |-> RequestNodeIP, isLighthouse |-> FALSE, caCert |-> q.caCert]
    /\ UpdateStatuses(<<Connecting, FailureStatus(StorageError)>>)
    /\ lastAuth' = AuthResult("NebulaManager.joinNetwork", FALSE, StorageError, NoQr)
    /\ lastSend' = NoSend
    /\ lastIn' = NoIn
    /\ UNCHANGED <<envVars, peerListeners, deriveVars, subscribed, consumed, inVars, fifoVars,
                   credentials, allocated, nmStorage, isServer, isRunning, server,
                   clientSocket, encryption, monitors, transport, sockVars, now>>

\* NebulaManagerImpl.onStatusChange(listener) for the observed listener: it
\* is added to statusListeners and called at once with the current status.
OnStatusChange ==
    /\ ~subscribed
    /\ subscribed' = TRUE
    /\ received' = <<nmStatus>>
    /\ published' = <<>>
    /\ emitted' = <<>>
    /\ UNCHANGED <<departed, currentStatus>>
    /\ lastSend' = NoSend
    /\ lastIn' = NoIn
    /\ UNCHANGED <<envVars, peerListeners, deriveVars, consumed, inVars, fifoVars, authVars, nmVars,
                   relayVars, transport, sockVars, now>>

\* The function onStatusChange returned: statusListeners.delete(listener).
StatusUnsubscribe ==
    /\ subscribed
    /\ subscribed' = FALSE
    /\ emitted' = <<>>
    /\ UNCHANGED <<departed, currentStatus>>
    /\ lastSend' = NoSend
    /\ lastIn' = NoIn
    /\ UNCHANGED <<envVars, peerListeners, deriveVars, consumed, logVars, inVars, fifoVars, authVars,
                   nmVars, relayVars, transport, sockVars, now>>

\* NebulaManagerImpl.stop
NebulaStop ==
    /\ UpdateStatus(Status("disconnected", Undefined, <<>>, "", Undefined))
    /\ lastSend' = NoSend
    /\ lastIn' = NoIn
    /\ UNCHANGED <<envVars, peerListeners, deriveVars, subscribed, consumed, inVars, fifoVars, authVars, nmConfig, nmStorage, isServer, isRunning, server,
                   clientSocket, encryption, monitors, transport, sockVars, now>>

\* NebulaManagerImpl.initialize: the saved configuration is started; without
\* one, privacy mode (setupPrivacyModeConfig) when the server URL is local,
\* else the error status.
NmInitialize ==
    /\ IF nmStorage # NoConfig
       THEN /\ nmConfig' = nmStorage
            /\ UpdateStatus(Status("connected", nmStorage.nodeIP, <<>>, "", Undefined))
       ELSE IF localUrl
       THEN /\ nmConfig' = [nodeIP |-> Undefined, isLighthouse |-> TRUE,
                            caCert |-> "privacy-mode-mock-ca"]
            /\ UpdateStatus(Status("connected", Undefined, <<>>, "", serverIP))
       ELSE /\ nmConfig' = nmConfig
            /\ UpdateStatus(Status("error", Undefined, <<>>,
                                   "No Nebula configuration found", Undefined))
    /\ lastSend' = NoSend
    /\ lastIn' = NoIn
    /\ UNCHANGED <<envVars, peerListeners, deriveVars, subscribed, consumed, inVars, fifoVars, authVars, nmStorage, isServer, isRunning, server, clientSocket,
                   encryption, monitors, transport, sockVars, now>>

\* The mesh monitoring that populates status.peers ("Will be populated by
\* monitoring"): a status update that carries the peers seen on the mesh.
MonitorPeers(arr) ==
    /\ nmStatus.status = "connected"
    /\ UpdateStatus([nmStatus EXCEPT !.peers = arr])
    /\ lastSend' = NoSend
    /\ lastIn' = NoIn
    /\ UNCHANGED <<envVars, peerListeners, deriveVars, subscribed, consumed, inVars, fifoVars, authVars, nmConfig, nmStorage, isServer, isRunning, server,
                   clientSocket, encryption, monitors, transport, sockVars, now>>

----------------------------------------------------------------------------
(* LocalRelayImpl *)

Message(type, data, to, from, t) ==
    [type |-> type, data |-> data, to |-> to, from |-> from, timestamp |-> t]

\* One hand-off to the simulated transport: sendToPeer(peer, message) or
\* sendToServer(message).
Timer(ev, peer, message) == [ev |-> ev, peer |-> peer, message |-> message]

\* The pending setTimeout callback of a hand-off.  Its emit has no listener,
\* so of the message it carries only the type is kept.
Pending(out) == [i \in DOMAIN out |->
                   [ev |-> out[i].ev, peer |-> out[i].peer, type |-> out[i].message.type]]

\* LocalRelayImpl.getLocalPeerId
LocalPeerId == IF Truthy(nmStatus.nodeIP) THEN nmStatus.nodeIP
               ELSE platform \o "-" \o ToString(now)

\* A variant of the hub decision that reads the configuration's lighthouse flag.
StartsAsServerFromConfig == nmConfig.isLighthouse /\ platform # "web"

\* The hub decision of LocalRelayImpl.start
StartsAsServer == nmStatus.nodeIP = serverIP /\ platform # "web"

\* LocalRelayImpl.start: startAsServer (with startPeerMonitoring, whose
\* subscription is called at once with the current status) or startAsClient
\* (with registerWithServer), then isRunning = true.
RelayStartEffect ==
    /\ encryption' = TRUE
    /\ IF StartsAsServer
       THEN /\ monitors < MaxMonitors
            /\ isServer' = TRUE
            /\ server' = TRUE
            /\ monitors' = monitors + 1
            /\ peers' = UpdatePeerList(peers, nmStatus.peers, now)
            /\ emitted' = IF peerListeners
                           THEN UpdatePeerListEvents(peers, nmStatus.peers, now)
                           ELSE <<>>
            /\ departed' = DepartedAfter(emitted')
            /\ UNCHANGED currentStatus
            /\ UNCHANGED <<clientSocket, transport>>
       ELSE /\ Len(transport) < MaxInFlight
            /\ isServer' = FALSE
            /\ clientSocket' = TRUE
            /\ transport' = transport \o Pending(<<
                  Timer("messageToServer", "server",
                        Message("peer-register", Plain("registration"), Undefined,
                                Undefined, now))>>)
            /\ emitted' = <<>>
            /\ UNCHANGED <<departed, currentStatus>>
            /\ UNCHANGED <<server, monitors, peers>>
    /\ isRunning' = TRUE

RelayStart ==
    /\ RelayStartEffect
    /\ lastSend' = NoSend
    /\ lastIn' = NoIn
    /\ UNCHANGED <<envVars, peerListeners, deriveVars, subscribed, consumed, logVars, inVars, fifoVars, authVars, nmVars, sockVars, now>>

\* LocalRelayImpl.stop
RelayStop ==
    /\ server' = FALSE
    /\ clientSocket' = FALSE
    /\ isRunning' = FALSE
    /\ peers' = <<>>
    /\ lastSend' = NoSend
    /\ lastIn' = NoIn
    /\ emitted' = <<>>
    /\ UNCHANGED <<departed, currentStatus>>
    /\ UNCHANGED <<envVars, peerListeners, deriveVars, subscribed, consumed, logVars, inVars, fifoVars, authVars, nmVars, isServer, encryption, monitors, transport,
                   sockVars, now>>

\* A variant of the staleness test with a timeout of one sweep interval.
IsStaleAfterInterval(peer, t) == t - peer.lastSeen >= SweepIntervalMs

\* The staleness test of cleanupStalePeers: now - peer.lastSeen > staleTimeout
IsStale(peer, t) == t - peer.lastSeen > StaleTimeoutMs

\* LocalRelayImpl.cleanupStalePeers at time t: the registry it leaves and the
\* 'peerDisconnected' events it emits, in Map order.
CleanupStalePeers(reg, t) == SelectSeq(reg, LAMBDA p : ~IsStale(p, t))

CleanupEvents(reg, t) ==
    LET stale == SelectSeq(reg, LAMBDA p : IsStale(p, t))
    IN [i \in DOMAIN stale |-> PeerEvent("peerDisconnected", stale[i].id)]

\* Thirty seconds pass and the setInterval callbacks of startPeerMonitoring
\* run: each calls cleanupStalePeers (the second and later ones find no
\* stale peer left).  No rpc or transport timer is pending.
SweepTick ==
    /\ now < MaxPeerTicks * SweepIntervalMs
    /\ transport = <<>>
    /\ \A id \in DOMAIN calls : ~calls[id].timer
    /\ now' = now + SweepIntervalMs
    /\ peers' = IF monitors > 0 THEN CleanupStalePeers(peers, now') ELSE peers
    /\ emitted' = IF monitors > 0 /\ peerListeners THEN CleanupEvents(peers, now')
                   ELSE <<>>
    /\ departed' = DepartedAfter(emitted')
    /\ UNCHANGED currentStatus
    /\ lastSend' = NoSend
    /\ lastIn' = NoIn
    /\ UNCHANGED <<envVars, peerListeners, deriveVars, subscribed, consumed, logVars,
                   inVars, fifoVars, authVars, nmVars, isServer, isRunning, server,
                   clientSocket, encryption, monitors, transport, sockVars>>

\* LocalRelayImpl.routeMessage, the encryption step
RouteEncrypt(message) ==
    IF encryption /\ DataTruthy(message.data)
    THEN [message EXCEPT !.data = EncryptRaw(@)]
    ELSE message

\* A variant of the routing step whose broadcast does not skip the sender.
RouteTargetsNoFilter(message) ==
    IF Truthy(message.to)
    THEN IF \E i \in DOMAIN peers : peers[i].id = message.to
         THEN <<message.to>>
         ELSE <<>>
    ELSE PeerIds

\* A variant of the routing step that broadcasts a message whose target is unknown.
RouteTargetsFallback(message) ==
    IF Truthy(message.to) /\ \E i \in DOMAIN peers : peers[i].id = message.to
    THEN <<message.to>>
    ELSE SelectSeq(PeerIds, LAMBDA id : id # message.from)

\* LocalRelayImpl.routeMessage, the routing step: the peers sendToPeer is
\* called for, in call order.
RouteTargets(message) ==
    IF Truthy(message.to)
    THEN IF \E i \in DOMAIN peers : peers[i].id = message.to
         THEN <<message.to>>
         ELSE <<>>
    ELSE SelectSeq(PeerIds, LAMBDA id : id # message.from)

\* LocalRelayImpl.routeMessage with sendToPeer: the timers it schedules.
RouteMessage(message) ==
    IF ~isServer THEN <<>>
    ELSE LET m == RouteEncrypt(message)
             tg == RouteTargets(m)
         IN [i \in 1..Len(tg) |-> Timer("messageSent", tg[i], m)]

\* A variant of sendToServer in which a spoke sends a targeted message itself.
SendToServerDirect(message) ==
    IF Truthy(message.to) THEN <<Timer("messageSent", message.to, message)>>
    ELSE <<Timer("messageToServer", "server", message)>>

\* LocalRelayImpl.sendToServer: the timer it schedules.
SendToServer(message) == <<Timer("messageToServer", "server", message)>>

\* LocalRelayImpl.sendMessage(type, data, targetPeer)
SendMessageEffect(type, data, targetPeer) ==
    LET message == Message(type, data, targetPeer, LocalPeerId, now)
        threw == ~isRunning \/ (~isServer /\ ~clientSocket)
        out == IF threw THEN <<>>
               ELSE IF isServer THEN RouteMessage(message)
               ELSE SendToServer(message)
    IN /\ Len(transport) + Len(out) <= MaxInFlight
       /\ transport' = transport \o Pending(out)
       /\ lastSend' = [message |-> message, asServer |-> isServer,
                       threw |-> threw, out |-> out]

Targets == {Undefined, "", "10.42.0.1", "10.42.0.2"}

\* A direct caller of LocalRelay.sendMessage (LocalNotifications, NebulaVoice).
SendMessage(data, targetPeer) ==
    /\ SendMessageEffect("peer-notification", data, targetPeer)
    /\ lastIn' = NoIn
    /\ emitted' = <<>>
    /\ UNCHANGED <<departed, currentStatus>>
    /\ UNCHANGED <<envVars, peerListeners, deriveVars, subscribed, consumed, logVars, inVars, fifoVars, authVars, nmVars, relayVars, sockVars, now>>

\* The delay of the setTimeout of sendToPeer ('messageSent') and of
\* sendToServer ('messageToServer').
DelayOf(ev) == IF ev = "messageSent" THEN PeerDelayMs ELSE ServerDelayMs

\* The pending timers were all set within one clock step, in the order of
\* transport.  Timer i can be the next to fire unless a timer set before it
\* has a delay no longer than its own: equal delays fire in the order set;
\* a shorter delay set later may or may not overtake.
Fireable(i) ==
    \A j \in 1..(i - 1) : DelayOf(transport[j].ev) > DelayOf(transport[i].ev)

\* Transport timer i fires: emit('messageSent' / 'messageToServer'), which has
\* no listener.  Timers run only when no continuation is left to run.
TransportFire(i) ==
    /\ i \in DOMAIN transport
    /\ micro = <<>>
    /\ Fireable(i)
    /\ transport' = SubSeq(transport, 1, i - 1) \o SubSeq(transport, i + 1, Len(transport))
    /\ lastSend' = NoSend
    /\ lastIn' = NoIn
    /\ emitted' = <<>>
    /\ UNCHANGED <<departed, currentStatus>>
    /\ UNCHANGED <<envVars, peerListeners, deriveVars, subscribed, consumed, logVars, inVars, fifoVars, authVars, nmVars, relayVars, sockVars, now>>

\* The type the ordered sender gives its n-th message.
MsgType(n) == "msg-" \o ToString(n)

\* LocalRelayImpl.sendMessage up to its first await: the checks, the message,
\* and, through routeMessage or sendToServer, the first setTimeout.  A
\* broadcast of the hub awaits each sendToPeer: the rest of its loop is a
\* continuation that runs after the code that made the call.
SendMessageCall(data, targetPeer) ==
    LET message == Message(MsgType(sends + 1), data, targetPeer, LocalPeerId, now)
        threw == ~isRunning \/ (~isServer /\ ~clientSocket)
        m == RouteEncrypt(message)
        tg == IF threw \/ ~isServer THEN <<>> ELSE RouteTargets(m)
        first == IF threw THEN <<>>
                 ELSE IF ~isServer THEN SendToServer(message)
                 ELSE IF tg = <<>> THEN <<>>
                 ELSE <<Timer("messageSent", Head(tg), m)>>
        rest == IF tg = <<>> THEN <<>> ELSE Tail(tg)
        queued == Len(transport) + Len(first) + Len(rest)
                  + Len(micro)
    IN /\ sends < MaxSends
       /\ queued <= MaxQueued
       /\ sends' = sends + 1
       /\ transport' = transport \o Pending(first)
       /\ micro' = IF rest = <<>> THEN micro
                   ELSE Append(micro, [message |-> m, rest |-> rest])
       /\ lastSend' = NoSend
       /\ lastIn' = NoIn
       /\ emitted' = <<>>
       /\ UNCHANGED <<departed, currentStatus>>
       /\ UNCHANGED <<envVars, peerListeners, deriveVars, subscribed, consumed, logVars, inVars, authVars,
                      nmVars, relayVars, sockVars, now>>

\* The first continuation of the microtask queue runs: the broadcast loop of
\* routeMessage calls sendToPeer for its next peer and awaits again.
RouteMessageResume ==
    /\ micro # <<>>
    /\ LET c == Head(micro)
       IN /\ transport' = transport \o
                 Pending(<<Timer("messageSent", Head(c.rest), c.message)>>)
          /\ micro' = IF Tail(c.rest) = <<>> THEN Tail(micro)
                      ELSE Append(Tail(micro), [c EXCEPT !.rest = Tail(@)])
    /\ lastSend' = NoSend
    /\ lastIn' = NoIn
    /\ emitted' = <<>>
    /\ UNCHANGED <<departed, currentStatus>>
    /\ UNCHANGED <<envVars, peerListeners, deriveVars, subscribed, consumed, logVars, inVars, sends, authVars, nmVars, relayVars, sockVars, now>>

----------------------------------------------------------------------------
(* NebulaSocket *)

\* A variant in which emitWithAck waits as long as rpc.
TimeoutOfRpc(kind) == RpcTimeoutMs

\* The timeout of the promise of rpc ("rpc") and of emitWithAck ("ack").
TimeoutOf(kind) == IF kind = "rpc" THEN RpcTimeoutMs ELSE AckTimeoutMs

TimeoutError(kind) == IF kind = "rpc" THEN "RPC call timed out"
                      ELSE "EmitWithAck timed out"

\* A call is the promise with its setTimeout timer; its correlation id is its
\* index in calls (rpc-<now>-<random> / ack-<now>-<random>, fresh per call).
NewCall(kind, event, t) ==
    [kind |-> kind, event |-> event, state |-> "pending", value |-> "",
     timer |-> TRUE, start |-> t, due |-> t + TimeoutOf(kind)]

\* resolve / reject of a promise: the first one settles it, later ones do nothing.
Settle(c, st, v) == IF c.state = "pending" THEN [c EXCEPT !.state = st, !.value = v]
                    ELSE c

Events == {"update"}
AckType(event) == event \o "-ack"

\* NebulaSocket.initialize, the synchronous part: the encryption is kept and
\* initializeNebula sets the status 'connecting'.
SocketInitialize ==
    /\ ~sockEncryption
    /\ sockEncryption' = TRUE
    /\ currentStatus' = "connecting"
    /\ lastSend' = NoSend
    /\ lastIn' = NoIn
    /\ emitted' = <<>>
    /\ UNCHANGED departed
    /\ UNCHANGED <<envVars, peerListeners, deriveVars, subscribed, consumed, logVars, inVars, fifoVars, authVars, nmVars, relayVars, transport, listeners, calls, now>>

\* NebulaSocket.setupMessageHandling and the onStatusChange that follows it
\* in initializeNebula: the socket listens to the 'peerConnected' and
\* 'peerDisconnected' events of LocalRelay and to the status of
\* NebulaManager, which calls the new listener with the current status.
SetupMessageHandling ==
    /\ ~peerListeners
    /\ peerListeners' = TRUE
    /\ currentStatus' = SocketStatusOf(nmStatus)
    /\ emitted' = <<>>
    /\ UNCHANGED departed
    /\ lastSend' = NoSend
    /\ lastIn' = NoIn
    /\ UNCHANGED <<envVars, deriveVars, subscribed, consumed, logVars, inVars, fifoVars,
                   authVars, nmVars, relayVars, transport, sockVars, now>>

\* NebulaSocket.initializeNebula, up to its first await: NebulaManager.initialize.
\* On a device that is connected already, initialize starts the saved
\* configuration and publishes the status the device has, which changes nothing.
InitializeNebulaManager ==
    /\ sockEncryption /\ ~peerListeners /\ ~isRunning
    /\ nmStatus.status = "disconnected"
    /\ NmInitialize

\* NebulaSocket.initializeNebula, its second await: LocalRelay.start(encryption)
InitializeNebulaRelay ==
    /\ sockEncryption /\ ~peerListeners /\ ~isRunning
    /\ nmStatus.status # "disconnected"
    /\ RelayStart

\* NebulaSocket.initializeNebula, the rest: setupMessageHandling and the
\* status listener.
InitializeNebulaListen ==
    /\ isRunning
    /\ SetupMessageHandling

\* NebulaSocket.disconnect: LocalRelay.stop, NebulaManager.stop and the
\* status 'disconnected'.
Disconnect ==
    LET disconnected == Status("disconnected", Undefined, <<>>, "", Undefined)
    IN /\ peerListeners
       /\ subscribed => Len(published) < MaxLog
       /\ server' = FALSE
       /\ clientSocket' = FALSE
       /\ isRunning' = FALSE
       /\ peers' = <<>>
       /\ nmStatus' = disconnected
       /\ currentStatus' = "disconnected"
       /\ published' = IF subscribed THEN Append(published, disconnected) ELSE published
       /\ received' = IF subscribed THEN Deliver(received, <<disconnected>>) ELSE received
       /\ emitted' = <<>>
       /\ lastSend' = NoSend
       /\ lastIn' = NoIn
       /\ UNCHANGED <<envVars, peerListeners, deriveVars, subscribed, consumed, departed,
                      inVars, fifoVars, authVars, nmConfig, nmStorage, isServer,
                      encryption, monitors, transport, sockVars, now>>

\* NebulaSocket.connect: NebulaManager.initialize when the status of
\* NebulaManager is 'disconnected'; nothing else.
Connect ==
    /\ peerListeners
    /\ nmStatus.status = "disconnected"
    /\ NmInitialize

\* NebulaSocket.rpc(listernerId, method, params)
Rpc(listernerId, params) ==
    /\ sockEncryption
    /\ Len(calls) < MaxCalls
    /\ LET id == Len(calls) + 1
           rpcMessage == EncryptInner(Payload("rpc-call", id, FALSE, listernerId,
                                              params, 0, FALSE))
       IN /\ calls' = Append(calls, NewCall("rpc", "rpc-call", now))
          /\ listeners' = Append(listeners, id)
          /\ SendMessageEffect("rpc-call", rpcMessage, Undefined)
    /\ lastIn' = NoIn
    /\ emitted' = <<>>
    /\ UNCHANGED <<departed, currentStatus>>
    /\ UNCHANGED <<envVars, peerListeners, deriveVars, subscribed, consumed, logVars, inVars, fifoVars, authVars, nmVars, relayVars, sockEncryption, now>>

\* NebulaSocket.emitWithAck(event, data)
EmitWithAck(event, val) ==
    /\ Len(calls) < MaxCalls
    /\ LET id == Len(calls) + 1
           message == Payload("emit", id, FALSE, "", val, 0, FALSE)
       IN /\ calls' = Append(calls, NewCall("ack", event, now))
          /\ listeners' = Append(listeners, id)
          /\ SendMessageEffect(event, message, Undefined)
    /\ lastIn' = NoIn
    /\ emitted' = <<>>
    /\ UNCHANGED <<departed, currentStatus>>
    /\ UNCHANGED <<envVars, peerListeners, deriveVars, subscribed, consumed, logVars, inVars, fifoVars, authVars, nmVars, relayVars, sockEncryption, now>>

\* The test of responseHandler / ackHandler of call id on a dispatched message.
TypeMatches(c, m) == m.type = (IF c.kind = "rpc" THEN "rpc-response" ELSE AckType(c.event))

\* A variant of the id test that accepts every readable response.
IdMatchesAny(id, d) == d.enc = 0

IdMatches(id, d) == d.enc = 0 /\ d.id = id

\* One listener of a pending call on message m (its data d already decrypted
\* by handleIncomingMessage).  The result: the calls, the listeners, and
\* whether the listener threw (which ends the emit).
Listener(id, m, d, cs, ls) ==
    LET c == cs[id]
        off == SelectSeq(ls, LAMBDA x : x # id)
        cleared == [c EXCEPT !.timer = FALSE]
    IN IF ~TypeMatches(c, m)
       THEN [calls |-> cs, listeners |-> ls, threw |-> FALSE]
       ELSE IF ~DataTruthy(d)
       THEN [calls |-> cs, listeners |-> ls, threw |-> TRUE]
       ELSE IF ~IdMatches(id, d)
       THEN [calls |-> cs, listeners |-> ls, threw |-> FALSE]
       ELSE IF c.kind = "ack"
       THEN [calls |-> [cs EXCEPT ![id] = Settle(cleared, "resolved", d.val)],
             listeners |-> off, threw |-> FALSE]
       ELSE IF ~d.ok
       THEN [calls |-> [cs EXCEPT ![id] =
                          Settle(cleared, "rejected",
                                 IF d.val # "" THEN d.val ELSE "RPC call failed")],
             listeners |-> off, threw |-> FALSE]
       ELSE IF DecryptInnerOk(d)
       THEN [calls |-> [cs EXCEPT ![id] = Settle(cleared, "resolved", d.val)],
             listeners |-> off, threw |-> FALSE]
       ELSE [calls |-> [cs EXCEPT ![id] = cleared], listeners |-> off, threw |-> TRUE]

\* EventEmitter.emit('message', m): the listeners registered when the emit
\* starts (todo) are called in order; one that throws ends the emit.
RECURSIVE Emit(_, _, _, _, _)
Emit(todo, m, d, cs, ls) ==
    IF todo = <<>> THEN [calls |-> cs, listeners |-> ls, threw |-> FALSE]
    ELSE LET r == Listener(Head(todo), m, d, cs, ls)
         IN IF r.threw THEN r
            ELSE Emit(Tail(todo), m, d, r.calls, r.listeners)

InMsg(type, data) == [type |-> type, data |-> data]

HandlerNames == {"h1", "h2"}
HandledTypes == {"peer-notification", "voice-message"}

\* LocalRelayImpl.onMessage(type, handler): messageHandlers.set(type, handler).
OnMessage(type, handler) ==
    /\ messageHandlers' = [t \in DOMAIN messageHandlers \cup {type} |->
                              IF t = type THEN handler ELSE messageHandlers[t]]
    /\ displaced' = IF type \in DOMAIN messageHandlers /\ messageHandlers[type] # handler
                    THEN displaced \cup {<<type, messageHandlers[type]>>}
                    ELSE displaced
    /\ lastSend' = NoSend
    /\ lastIn' = NoIn
    /\ emitted' = <<>>
    /\ UNCHANGED <<departed, currentStatus>>
    /\ UNCHANGED <<envVars, peerListeners, deriveVars, subscribed, consumed, logVars, nmVars, relayVars, transport, sockVars, now, fifoVars, authVars>>

\* The function onMessage returns: messageHandlers.delete(type).
Unsubscribe(type) ==
    /\ type \in DOMAIN messageHandlers
    /\ messageHandlers' = [t \in DOMAIN messageHandlers \ {type} |-> messageHandlers[t]]
    /\ lastSend' = NoSend
    /\ lastIn' = NoIn
    /\ emitted' = <<>>
    /\ UNCHANGED <<departed, currentStatus>>
    /\ UNCHANGED <<envVars, peerListeners, deriveVars, subscribed, consumed, logVars, nmVars, relayVars, transport, sockVars, now, displaced, fifoVars, authVars>>

\* A variant of the lookup that calls the handlers of every type.
HandlersForAll(type) ==
    LET hs == {messageHandlers[t] : t \in DOMAIN messageHandlers}
    IN IF hs = {} THEN <<>>
       ELSE IF "h1" \in hs /\ "h2" \in hs THEN <<"h1", "h2">>
       ELSE IF "h1" \in hs THEN <<"h1">> ELSE <<"h2">>

\* messageHandlers.get(message.type) and the call of the handler found: the
\* handlers handleIncomingMessage calls, in call order.
HandlersFor(type) ==
    IF type \in DOMAIN messageHandlers THEN <<messageHandlers[type]>> ELSE <<>>

\* A variant of the decryption step that goes on with a payload it could not decrypt.
DroppedNever(m) == FALSE

\* The payload handleIncomingMessage passes to the handler and to the
\* 'message' listeners: message.data after the decryption step.
DispatchedData(m) ==
    IF encryption /\ DataTruthy(m.data) THEN DecryptRaw(m.data) ELSE m.data

\* The decryption step of handleIncomingMessage ends the call: decryptRaw threw.
Dropped(m) == encryption /\ DataTruthy(m.data) /\ ~DecryptOk(m.data)

\* LocalRelayImpl.handleIncomingMessage(message, fromPeer): decrypt (a failure
\* drops the message), call the handler of the type, then emit('message').
\* The registered handlers start their work and return; they do not throw.
HandleIncomingMessage(m) ==
    LET dropped == Dropped(m)
        d == DispatchedData(m)
        r == Emit(listeners, m, d, calls, listeners)
    IN /\ lastIn' = IF dropped THEN [dropped |-> TRUE, invoked |-> <<>>]
                    ELSE [dropped |-> FALSE, invoked |-> HandlersFor(m.type)]
       /\ lastSend' = NoSend
       /\ emitted' = <<>>
       /\ UNCHANGED <<departed, currentStatus>>
       /\ UNCHANGED <<envVars, peerListeners, deriveVars, subscribed, consumed, logVars, inVars, fifoVars,
                      authVars, nmVars, relayVars, transport, sockEncryption, now>>
       /\ calls' = IF dropped THEN calls ELSE r.calls
       /\ listeners' = IF dropped THEN listeners ELSE r.listeners

\* The setTimeout callback of call id: reject with the timeout error.
TimerFire(id) ==
    /\ id \in DOMAIN calls
    /\ calls[id].timer
    /\ now >= calls[id].due
    /\ calls' = [calls EXCEPT ![id] =
                   Settle([@ EXCEPT !.timer = FALSE], "rejected", TimeoutError(@.kind))]
    /\ lastSend' = NoSend
    /\ lastIn' = NoIn
    /\ emitted' = <<>>
    /\ UNCHANGED <<departed, currentStatus>>
    /\ UNCHANGED <<envVars, peerListeners, deriveVars, subscribed, consumed, logVars, inVars, fifoVars, authVars, nmVars, relayVars, transport, sockEncryption, listeners, now>>

\* The function onMessage(type, handler) returned, called by the code that
\* made that registration: messageHandlers.delete(type).
UnsubscribeOf(type, handler) ==
    /\ \/ <<type, handler>> \in displaced
       \/ (type \in DOMAIN messageHandlers /\ messageHandlers[type] = handler)
    /\ Unsubscribe(type)

\* Time passes.  A timer that is due fires before more time passes, and the
\* transport's timers (5 and 10 ms) are gone within one step.
Tick ==
    /\ now < MaxNow
    /\ \A id \in DOMAIN calls : calls[id].timer => now < calls[id].due
    /\ transport = <<>>
    /\ now' = now + TickMs
    /\ lastSend' = NoSend
    /\ lastIn' = NoIn
    /\ emitted' = <<>>
    /\ UNCHANGED <<departed, currentStatus>>
    /\ UNCHANGED <<envVars, peerListeners, deriveVars, subscribed, consumed, logVars, inVars, fifoVars, authVars, nmVars, relayVars, transport, sockVars>>

----------------------------------------------------------------------------
(* NebulaAuthImpl, and the QR operations of NebulaSocket *)

\* The QR data of setupAsLighthouse and generateAddDeviceQR at time t, on a
\* device with configuration config and status st.  authChallenge signs the
\* challenge it makes, so the signature in the payload verifies.
LighthouseQr(config, st, t) ==
    Qr("1.0", "NEBULA_CA_CERT_PLACEHOLDER", "",
       IF Truthy(st.nodeIP) THEN st.nodeIP ELSE "10.42.0.1",
       TRUE, t, TRUE, config.caCert)

\* NebulaAuthImpl.setupAsLighthouse, on success
AuthSetupAsLighthouse ==
    /\ SetupAsCAEffect
    /\ credentials' = "networkSecret"
    /\ lastAuth' = AuthResult("setupAsLighthouse", TRUE, "",
                              LighthouseQr(nmConfig', nmStatus', now))
    /\ lastSend' = NoSend
    /\ lastIn' = NoIn
    /\ UNCHANGED <<envVars, peerListeners, deriveVars, subscribed, consumed, inVars, fifoVars, allocated, isServer, isRunning, server,
                   clientSocket, encryption, monitors, transport, sockVars, now>>

\* consumed before NebulaAuth.joinNetwork has consumed a payload.
NoConsumed == [qr |-> NoQr, n |-> 0]

\* A variant of the freshness test that also refuses the payload consumed last.
ExpiredOrConsumed(q, t) == (q.auth /\ t - q.timestamp > MaxAgeMs) \/ consumed.qr = q

\* A variant of the freshness test with a window of ten minutes.
ExpiredAfterTen(q, t) == q.auth /\ t - q.timestamp > 2 * MaxAgeMs

\* The freshness test of joinNetwork at time t: age > maxAge.  Without a
\* timestamp the age is NaN and the test is false.
Expired(q, t) == q.auth /\ t - q.timestamp > MaxAgeMs

\* NebulaAuthImpl.deriveSharedSecret, a function of challenge, signature and
\* public key; it does not verify the signature.
DeriveSharedSecret(q) == IF q.sigValid THEN "derived" ELSE "derived-unverified"

\* A 32-bit integer of JavaScript, as its two 16-bit halves (the bits of its
\* two's complement form): [hi, lo] stands for hi * 65536 + lo modulo 2^32.
Word(hi, lo) == [hi |-> hi, lo |-> lo]

\* a + b, a << 5 and -a on 32 bits
Add32(a, b) ==
    LET lo == a.lo + b.lo
    IN Word((a.hi + b.hi + (lo \div 65536)) % 65536, lo % 65536)

Shl5(a) ==
    LET lo == a.lo * 32
    IN Word((a.hi * 32 + (lo \div 65536)) % 65536, lo % 65536)

Neg32(a) ==
    IF a.lo = 0 THEN Word((65536 - a.hi) % 65536, 0)
    ELSE Word(65535 - a.hi, 65536 - a.lo)

IsNegative(a) == a.hi >= 32768

\* One round of the loop of deriveSharedSecret:
\* hash = ((hash << 5) - hash + combined[i]) & 0xffffffff
HashStep(hash, byte) == Add32(Add32(Shl5(hash), Neg32(hash)), Word(0, byte))

\* The values hash takes in the loop: before the first round, and after each
\* of the first n rounds.
RECURSIVE Hashes(_, _)
Hashes(combined, n) ==
    IF n = 0 THEN <<Word(0, 0)>>
    ELSE LET before == Hashes(combined, n - 1)
         IN Append(before, HashStep(before[n], combined[n]))

\* hash after the loop
RollingHash(combined) == Hashes(combined, Len(combined))[Len(combined) + 1]

\* Math.abs(hash): the magnitude, below or equal to 2^31, as a word
Abs32(a) == IF IsNegative(a) THEN Neg32(a) ELSE a

\* Number.toString(16) of a magnitude: its hexadecimal digits, the first not
\* zero unless the number is zero.  A digit is a number of 0..15.
RECURSIVE StripZeros(_)
StripZeros(digits) ==
    IF Len(digits) > 1 /\ Head(digits) = 0 THEN StripZeros(Tail(digits)) ELSE digits

Nibbles(h) == <<h \div 4096, (h \div 256) % 16, (h \div 16) % 16, h % 16>>

ToString16(a) == StripZeros(Nibbles(a.hi) \o Nibbles(a.lo))

\* A variant of padStart that leaves the string as it is.
PadStartNot(str, n) == str

\* String.padStart(n, '0')
PadStart(str, n) ==
    IF Len(str) >= n THEN str ELSE [i \in 1..(n - Len(str)) |-> 0] \o str

\* String.repeat(n) and String.slice(0, n)
RECURSIVE Repeat(_, _)
Repeat(str, n) == IF n = 0 THEN <<>> ELSE str \o Repeat(str, n - 1)

Slice(str, n) == IF Len(str) > n THEN SubSeq(str, 1, n) ELSE str

\* NebulaAuthImpl.deriveSharedSecret(challenge, signature, publicKey) on the
\* bytes of the three buffers; the result is a string of hexadecimal digits.
DeriveSharedSecretBytes(challenge, signature, publicKey) ==
    LET combined == challenge \o signature \o publicKey
        hash == RollingHash(combined)
    IN Slice(Repeat(PadStart(ToString16(Abs32(hash)), 8), 8), 64)

\* derived before deriveSharedSecret was called.
NoDerived == [challenge |-> <<>>, signature |-> <<>>, publicKey |-> <<>>,
              at |-> 0 - 1, secret |-> <<>>]

\* A call of deriveSharedSecret (by deriveCredentialsFromQR) at the time now.
DeriveCall(challenge, signature, publicKey) ==
    /\ Cardinality(memo) < MaxDerived
    /\ derived' = [challenge |-> challenge, signature |-> signature,
                    publicKey |-> publicKey, at |-> now,
                    secret |-> DeriveSharedSecretBytes(challenge, signature, publicKey)]
    /\ memo' = IF derived = NoDerived THEN memo
                ELSE memo \cup {<<derived.challenge, derived.signature, derived.publicKey,
                                   derived.secret>>}
    /\ emitted' = <<>>
    /\ UNCHANGED <<departed, currentStatus>>
    /\ lastSend' = NoSend
    /\ lastIn' = NoIn
    /\ UNCHANGED <<envVars, peerListeners, subscribed, consumed, logVars, inVars, fifoVars, authVars,
                   nmVars, relayVars, transport, sockVars, now>>

\* NebulaAuthImpl.deriveCredentialsFromQR: the secret, or null ("null") when
\* Buffer.from throws on an absent field.
DeriveCredentialsFromQR(q) == IF q.auth THEN DeriveSharedSecret(q) ELSE "null"

\* The version test of NebulaAuthImpl.joinNetwork
VersionRejected(q) == q.version # "1.0"

\* A variant of the failure return that also clears the stored credentials.
JoinFailureClears(error) ==
    /\ lastAuth' = AuthResult("joinNetwork", FALSE, error, NoQr)
    /\ credentials' = "null"
    /\ emitted' = <<>>
    /\ UNCHANGED <<departed, currentStatus>>
    /\ UNCHANGED <<nmVars, peers, logVars, consumed>>

\* NebulaAuthImpl.joinNetwork(qrCodeData) returns a failure.
JoinFailure(error) ==
    /\ lastAuth' = AuthResult("joinNetwork", FALSE, error, NoQr)
    /\ emitted' = <<>>
    /\ UNCHANGED <<departed, currentStatus>>
    /\ UNCHANGED <<nmVars, peers, credentials, logVars, consumed>>

\* NebulaAuthImpl.joinNetwork(qrCodeData)
AuthJoinNetwork(q) ==
    /\ IF VersionRejected(q) THEN JoinFailure("Unsupported QR code version")
       ELSE IF Expired(q, now) THEN JoinFailure("QR code has expired")
       ELSE IF DeriveCredentialsFromQR(q) = "null"
       THEN JoinFailure("Failed to derive credentials")
       ELSE /\ consumed.qr = q => consumed.n < MaxConsumptions
            /\ JoinNetworkEffect(q)
            /\ credentials' = DeriveCredentialsFromQR(q)
            /\ consumed' = IF consumed.qr = q THEN [consumed EXCEPT !.n = @ + 1]
                            ELSE [qr |-> q, n |-> 1]
            /\ lastAuth' = AuthResult("joinNetwork", TRUE, "", NoQr)
    /\ lastSend' = NoSend
    /\ lastIn' = NoIn
    /\ UNCHANGED <<envVars, peerListeners, deriveVars, subscribed, inVars, fifoVars, allocated, isServer, isRunning, server,
                   clientSocket, encryption, monitors, transport, sockVars, now>>

\* The step of logout that throws: none, NebulaManager.stop (a status
\* listener throws after the status was set), TokenStorage.removeCredentials,
\* or the clearAll of NebulaManager.reset.
LogoutFailures == {"none", "stop", "remove", "reset"}

\* NebulaAuthImpl.logout: stop, removeCredentials and reset in one try block
\* whose catch logs the error; the step that throws ends the block.
Logout(failing) ==
    LET disconnected == Status("disconnected", Undefined, <<>>, "", Undefined)
    IN /\ UpdateStatuses(IF failing \in {"stop", "remove"} THEN <<disconnected>>
                         ELSE <<disconnected, disconnected>>)
       /\ credentials' = IF failing \in {"stop", "remove"} THEN credentials ELSE "null"
       /\ nmConfig' = IF failing = "none" THEN NoConfig ELSE nmConfig
       /\ nmStorage' = IF failing = "none" THEN NoConfig ELSE nmStorage
       /\ lastAuth' = AuthResult("logout", TRUE, "", NoQr)
       /\ lastSend' = NoSend
       /\ lastIn' = NoIn
       /\ UNCHANGED <<envVars, peerListeners, deriveVars, subscribed, consumed, inVars,
                      fifoVars, allocated, isServer, isRunning, server, clientSocket,
                      encryption, monitors, transport, sockVars, now>>

\* The steps of NebulaAuthImpl.joinNetwork that throw after the checks have
\* passed: inside NebulaManager.joinNetwork before the configuration is made
\* ("generate") or at saveConfig after it was assigned ("save"), or
\* TokenStorage.setCredentials after NebulaManager.joinNetwork returned ("store").
JoinFailSteps == {"generate", "save", "store"}

CredentialStoreError == "credential store failed"

\* NebulaAuthImpl.joinNetwork(qrCodeData) when one of those steps throws: the
\* catch block returns { success: false, error: error.message }.
AuthJoinNetworkFails(q, step) ==
    LET message == IF step = "generate" THEN RandomError
                   ELSE IF step = "save" THEN StorageError ELSE CredentialStoreError
        config == [nodeIP |-> RequestNodeIP, isLighthouse |-> FALSE, caCert |-> q.caCert]
    IN /\ ~VersionRejected(q)
       /\ ~Expired(q, now)
       /\ DeriveCredentialsFromQR(q) # "null"
       /\ IF step = "store"
          THEN JoinNetworkEffect(q)
          ELSE /\ nmConfig' = IF step = "save" THEN config ELSE nmConfig
               /\ nmStorage' = nmStorage
               /\ UpdateStatuses(<<Connecting, FailureStatus(message)>>)
       /\ lastAuth' = AuthResult("joinNetwork", FALSE, message, NoQr)
       /\ lastSend' = NoSend
       /\ lastIn' = NoIn
       /\ UNCHANGED <<envVars, peerListeners, deriveVars, subscribed, consumed, inVars,
                      fifoVars, credentials, allocated, isServer, isRunning, server,
                      clientSocket, encryption, monitors, transport, sockVars, now>>

\* A variant of the lighthouse test that passes on every connected device.
StatusIsConnected == nmStatus.status = "connected"

\* The lighthouse test of generateAddDeviceQR and getJoinQRData
StatusIsLighthouse == nmStatus.nodeIP = "10.42.0.1"

\* NebulaAuthImpl.generateAddDeviceQR
GenerateAddDeviceQR ==
    /\ lastAuth' =
          IF ~StatusIsLighthouse
          THEN AuthResult("generateAddDeviceQR", FALSE,
                          "Only lighthouse can generate device addition QR codes", NoQr)
          ELSE IF credentials = "null"
          THEN AuthResult("generateAddDeviceQR", FALSE, "No credentials found", NoQr)
          ELSE AuthResult("generateAddDeviceQR", TRUE, "",
                          LighthouseQr(nmConfig, nmStatus, now))
    /\ lastSend' = NoSend
    /\ lastIn' = NoIn
    /\ emitted' = <<>>
    /\ UNCHANGED <<departed, currentStatus>>
    /\ UNCHANGED <<envVars, peerListeners, deriveVars, subscribed, consumed, logVars, inVars, fifoVars, credentials, allocated, nmVars, relayVars,
                   transport, sockVars, now>>

\* The string getJoinQRData returns; it has no fields.
JoinDataStub == Qr("nebula-join-data", "", "", "", FALSE, 0, FALSE, "")

\* NebulaSocket.getJoinQRData
GetJoinQRData ==
    /\ lastAuth' =
          IF ~StatusIsLighthouse
          THEN AuthResult("getJoinQRData", FALSE,
                          "Only lighthouse can generate join QR data", NoQr)
          ELSE AuthResult("getJoinQRData", TRUE, "", JoinDataStub)
    /\ lastSend' = NoSend
    /\ lastIn' = NoIn
    /\ emitted' = <<>>
    /\ UNCHANGED <<departed, currentStatus>>
    /\ UNCHANGED <<envVars, peerListeners, deriveVars, subscribed, consumed, logVars, inVars, fifoVars, credentials, allocated, nmVars, relayVars,
                   transport, sockVars, now>>

\* NebulaManagerImpl.joinNetwork on another device of the mesh, of platform
\* os: the address requestNodeIP gives it.
OtherDeviceJoins(os) ==
    /\ allocated' = allocated \cup {RequestNodeIPOf(os)}
    /\ lastSend' = NoSend
    /\ lastIn' = NoIn
    /\ emitted' = <<>>
    /\ UNCHANGED <<departed, currentStatus>>
    /\ UNCHANGED <<envVars, peerListeners, deriveVars, subscribed, consumed, logVars, inVars, fifoVars, credentials, lastAuth, nmVars, relayVars,
                   transport, sockVars, now>>

----------------------------------------------------------------------------
(* Inputs *)

OutData == {NoData, Plain("hello")}

\* The messages a peer may send to this device: rpc responses and acks as the
\* relay of the sender encrypts them, one that does not decrypt, one in plain
\* text, one without data.
Wire(d) == EncryptRaw(d)

InResponses ==
    {InMsg("rpc-response", Wire(Payload("rpc-response", id, r[1], "", r[2], 1, r[3]))) :
        id \in 1..MaxCalls,
        r \in {<<TRUE, "result", FALSE>>, <<TRUE, "result", TRUE>>,
               <<FALSE, "boom", FALSE>>, <<FALSE, "", FALSE>>}}

InAcks ==
    {InMsg(AckType(e), Wire(Payload("ack", id, FALSE, "", "acked", 0, FALSE))) :
        e \in Events, id \in 1..MaxCalls}

InOthers ==
    {InMsg("rpc-response",
           [Wire(Payload("rpc-response", 1, TRUE, "", "result", 1, FALSE)) EXCEPT !.bad = TRUE]),
     InMsg("rpc-response", Payload("rpc-response", 1, TRUE, "", "result", 1, FALSE)),
     InMsg("rpc-response", NoData),
     InMsg(AckType("update"), NoData),
     InMsg("peer-notification", Wire(Plain("hello")))}

InMessages == InResponses \cup InAcks \cup InOthers

----------------------------------------------------------------------------
(* The relay: NebulaManager status, LocalRelay role, registry and routing *)

Init ==
    /\ platform \in Platforms
    /\ localUrl \in (IF platform = "macos" THEN BOOLEAN ELSE {TRUE})
    /\ nmConfig = NoConfig
    /\ nmStorage = NoConfig
    /\ nmStatus = Status("disconnected", Undefined, <<>>, "", Undefined)
    /\ monitors = 0
    /\ isServer = FALSE
    /\ isRunning = FALSE
    /\ peers = <<>>
    /\ server = FALSE
    /\ clientSocket = FALSE
    /\ encryption = FALSE
    /\ transport = <<>>
    /\ lastSend = NoSend
    /\ sockEncryption = FALSE
    /\ listeners = <<>>
    /\ calls = <<>>
    /\ now = 0
    /\ messageHandlers = <<>>
    /\ displaced = {}
    /\ lastIn = NoIn
    /\ micro = <<>>
    /\ sends = 0
    /\ credentials = "null"
    /\ lastAuth = NoAuth
    /\ allocated = {}
    /\ peerListeners = FALSE
    /\ emitted = <<>>
    /\ subscribed = FALSE
    /\ published = <<>>
    /\ received = <<>>
    /\ consumed = NoConsumed
    /\ derived = NoDerived
    /\ memo = {}
    /\ departed = {}
    /\ currentStatus = "disconnected"

Next ==
    \/ SetupAsCA
    \/ \E q \in {GenerateJoinQRData(HubConfig).qr} : JoinNetwork(q)
    \/ NmInitialize
    \/ NebulaStop
    \/ \E arr \in Arrays : MonitorPeers(arr)
    \/ RelayStart
    \/ RelayStop
    \/ \E d \in OutData, to \in Targets : SendMessage(d, to)
    \/ \E i \in 1..MaxQueued : TransportFire(i)

Spec == Init /\ [][Next]_vars

----------------------------------------------------------------------------
(* The socket: rpc and emitWithAck calls on a started relay, with the clock *)

\* The device after setupAsCA, LocalRelay.start and two peers seen on the mesh
\* (a hub), or after joinNetwork and LocalRelay.start (a spoke).
InitRpc ==
    /\ platform \in {"macos", "ios"}
    /\ localUrl = TRUE
    /\ nmConfig = IF platform = "macos" THEN HubConfig
                  ELSE [nodeIP |-> RequestNodeIP, isLighthouse |-> FALSE,
                        caCert |-> GenerateCACertificate]
    /\ nmStorage = nmConfig
    /\ nmStatus = Status("connected", nmConfig.nodeIP,
                         IF platform = "macos" THEN <<"10.42.0.2", "10.42.0.3">> ELSE <<>>,
                         "", Undefined)
    /\ monitors = IF platform = "macos" THEN 1 ELSE 0
    /\ isServer = (platform = "macos")
    /\ isRunning = TRUE
    /\ peers = IF platform = "macos"
               THEN <<Peer("10.42.0.2", 0), Peer("10.42.0.3", 0)>> ELSE <<>>
    /\ server = (platform = "macos")
    /\ clientSocket = (platform # "macos")
    /\ encryption = TRUE
    /\ transport = <<>>
    /\ lastSend = NoSend
    /\ sockEncryption = FALSE
    /\ listeners = <<>>
    /\ calls = <<>>
    /\ now = 0
    /\ messageHandlers = <<>>
    /\ displaced = {}
    /\ lastIn = NoIn
    /\ micro = <<>>
    /\ sends = 0
    /\ credentials = "null"
    /\ lastAuth = IF platform = "macos"
                  THEN [GenerateJoinQRData(HubConfig) EXCEPT !.op = "setupAsCA"]
                  ELSE AuthResult("NebulaManager.joinNetwork", TRUE, "", NoQr)
    /\ allocated = {}
    /\ peerListeners = FALSE
    /\ emitted = <<>>
    /\ subscribed = FALSE
    /\ published = <<>>
    /\ received = <<>>
    /\ consumed = NoConsumed
    /\ derived = NoDerived
    /\ memo = {}
    /\ departed = {}
    /\ currentStatus = "disconnected"

NextRpc ==
    \/ SocketInitialize
    \/ \E l \in {"10.42.0.2", "10.42.0.3"} : Rpc(l, "params")
    \/ \E e \in Events : EmitWithAck(e, "data")
    \/ \E m \in InMessages : HandleIncomingMessage(m)
    \/ \E id \in 1..MaxCalls : TimerFire(id)
    \/ \E i \in 1..MaxQueued : TransportFire(i)
    \/ Tick

SpecRpc == InitRpc /\ [][NextRpc]_vars

\* The timers of the runtime fire: a setTimeout that is due runs its callback
\* (the transport's 5 and 10 ms timers, the timeouts of rpc and emitWithAck),
\* and time goes on while no timer is due.
SpecRpcLive ==
    /\ SpecRpc
    /\ WF_vars(Tick)
    /\ \A i \in 1..MaxQueued : WF_vars(TransportFire(i))
    /\ \A id \in 1..MaxCalls : WF_vars(TimerFire(id))

----------------------------------------------------------------------------
(* Inbound dispatch: the handler table and handleIncomingMessage *)

InTyped ==
    {InMsg(t, d) : t \in HandledTypes,
                   d \in {Wire(Plain("hello")), [Wire(Plain("hello")) EXCEPT !.bad = TRUE],
                          Plain("hello"), NoData}}

\* Acks that carry the ack id of a call but do not decrypt.
InBadAcks == {InMsg(m.type, [m.data EXCEPT !.bad = TRUE]) : m \in InAcks}

InInbound == InTyped \cup InAcks \cup InBadAcks \cup InOthers

\* A started relay (hub or spoke), or a relay that was never started.
InitIn ==
    \/ InitRpc
    \/ Init /\ platform = "ios"

NextIn ==
    \/ \E t \in HandledTypes, h \in HandlerNames : OnMessage(t, h)
    \/ \E t \in HandledTypes : Unsubscribe(t)
    \/ \E m \in InInbound : HandleIncomingMessage(m)
    \/ \E e \in Events : EmitWithAck(e, "data")
    \/ \E i \in 1..MaxQueued : TransportFire(i)

SpecIn == InitIn /\ [][NextIn]_vars

----------------------------------------------------------------------------
(* Send order: sendMessage calls that overlap, and the transport's timers *)

FifoTargets == {Undefined, "10.42.0.2", "10.42.0.3"}

NextFifo ==
    \/ \E to \in FifoTargets : SendMessageCall(Plain("hello"), to)
    \/ RouteMessageResume
    \/ \E i \in 1..MaxQueued : TransportFire(i)

SpecFifo == InitRpc /\ [][NextFifo]_vars

----------------------------------------------------------------------------
(* Pairing: setup, QR payloads and join *)

\* The times at which the hub issued the payloads that are consumed at time 0:
\* just outside the freshness window, on its edge, and just now.
IssueTimes == {0 - (MaxAgeMs + 1), 0 - MaxAgeMs, 0}

\* The payloads a hub's setupAsLighthouse / generateAddDeviceQR issue.
HubQrs == {LighthouseQr(HubConfig, Status("connected", serverIP, <<>>, "", Undefined), t) :
              t \in IssueTimes}

\* The payloads a device may be given: those of a hub, the same with another
\* version or with a signature that does not verify, and the join data
\* NebulaManager.setupAsCA returns.
AllQrs == HubQrs
          \cup {[q EXCEPT !.version = "2.0"] : q \in HubQrs}
          \cup {[q EXCEPT !.sigValid = FALSE] : q \in HubQrs}
          \cup {GenerateJoinQRData(HubConfig).qr,
                [GenerateJoinQRData(HubConfig).qr EXCEPT !.version = "2.0"]}

OtherPlatforms == {"ios", "android", "macos"}

NextAuth ==
    \/ AuthSetupAsLighthouse
    \/ \E q \in AllQrs : AuthJoinNetwork(q)
    \/ GenerateAddDeviceQR
    \/ GetJoinQRData
    \/ SetupAsCA
    \/ \E q \in AllQrs : JoinNetwork(q)
    \/ NmInitialize
    \/ NebulaStop
    \/ \E os \in OtherPlatforms : OtherDeviceJoins(os)

SpecAuth == Init /\ [][NextAuth]_vars

----------------------------------------------------------------------------
(* Registrations: onMessage and the functions it returns *)

NextHandlers ==
    \/ \E t \in HandledTypes, h \in HandlerNames : OnMessage(t, h)
    \/ \E t \in HandledTypes, h \in HandlerNames : UnsubscribeOf(t, h)
    \/ \E m \in InTyped : HandleIncomingMessage(m)

SpecHandlers == InitIn /\ [][NextHandlers]_vars

----------------------------------------------------------------------------
(* The connection of the socket: initialize, disconnect, connect *)

NextSocket ==
    \/ SocketInitialize
    \/ InitializeNebulaManager
    \/ InitializeNebulaRelay
    \/ InitializeNebulaListen
    \/ Disconnect
    \/ Connect
    \/ SetupAsCA
    \/ \E d \in OutData, to \in Targets : SendMessage(d, to)
    \/ \E i \in 1..MaxQueued : TransportFire(i)

SpecSocket == Init /\ [][NextSocket]_vars

----------------------------------------------------------------------------
(* Joins that fail *)

NextJoin ==
    \/ \E q \in AllQrs : AuthJoinNetwork(q)
    \/ \E q \in AllQrs, step \in JoinFailSteps : AuthJoinNetworkFails(q, step)
    \/ AuthSetupAsLighthouse
    \/ NebulaStop
    \/ Tick

SpecJoin == Init /\ [][NextJoin]_vars

----------------------------------------------------------------------------
(* Leaving the mesh: logout after setup or join *)

NextLogout ==
    \/ AuthSetupAsLighthouse
    \/ \E q \in AllQrs : AuthJoinNetwork(q)
    \/ \E f \in LogoutFailures : Logout(f)
    \/ NmInitialize

SpecLogout == Init /\ [][NextLogout]_vars

----------------------------------------------------------------------------
(* The registry of the hub: observations, sweeps and their events *)

\* The peers arrays the monitoring reports: also one that names a peer
\* twice and one that is not in ascending order.
PeerArrays == {<<>>, <<"10.42.0.2">>, <<"10.42.0.2", "10.42.0.3">>,
               <<"10.42.0.3", "10.42.0.2">>, <<"10.42.0.2", "10.42.0.2">>}

\* A desktop device, which setupAsCA makes the hub.
InitPeers == Init /\ platform = "macos" /\ localUrl = TRUE

NextPeers ==
    \/ SetupAsCA
    \/ SetupMessageHandling
    \/ RelayStart
    \/ RelayStop
    \/ \E arr \in PeerArrays : MonitorPeers(arr)
    \/ NebulaStop
    \/ NmInitialize
    \/ SweepTick

SpecPeers == InitPeers /\ [][NextPeers]_vars

----------------------------------------------------------------------------
(* The status surface: setup and join with their failures, and a listener *)

NextStatus ==
    \/ OnStatusChange
    \/ StatusUnsubscribe
    \/ SetupAsCA
    \/ \E step \in {"generate", "save"} : SetupAsCAFails(step)
    \/ \E q \in {GenerateJoinQRData(HubConfig).qr} : JoinNetwork(q)
    \/ \E message \in ParseErrors : JoinNetworkInvalid(message)
    \/ \E q \in {GenerateJoinQRData(HubConfig).qr} : JoinNetworkSaveFails(q)
    \/ NmInitialize
    \/ NebulaStop

SpecStatus == Init /\ [][NextStatus]_vars

----------------------------------------------------------------------------
(* Forwarding: messages of a spoke that reach the hub *)

\* The messages of the spoke 10.42.0.2 as they reach another device: to a
\* target or to all, with the payload as a relay encrypts it or in plain text.
InForwarded ==
    {Message("peer-notification", d, to, "10.42.0.2", 0) :
        d \in {Wire(Plain("hello")), Plain("hello")},
        to \in {Undefined, "10.42.0.3"}}

NextForward ==
    \/ \E d \in OutData, to \in Targets : SendMessage(d, to)
    \/ \E m \in InForwarded : HandleIncomingMessage(m)
    \/ \E t \in HandledTypes, h \in HandlerNames : OnMessage(t, h)
    \/ \E i \in 1..MaxQueued : TransportFire(i)

SpecForward == InitRpc /\ [][NextForward]_vars

----------------------------------------------------------------------------
(* Credential derivation: deriveSharedSecret on buffers of bytes *)

\* The buffers Buffer.from(hex, 'hex') may give: empty, one zero byte, bytes
\* that keep the hash small, and bytes that make it wrap.
Challenges == {<<>>, <<1, 2>>, <<255, 255, 255, 255>>}
Signatures == {<<0>>, <<255, 255, 255, 255>>}
PublicKeys == {<<>>, <<18, 52, 86, 120, 154>>}

InitDerive == Init /\ platform = "ios"

NextDerive ==
    \/ \E c \in Challenges, g \in Signatures, k \in PublicKeys : DeriveCall(c, g, k)
    \/ Tick

SpecDerive == InitDerive /\ [][NextDerive]_vars

----------------------------------------------------------------------------
(* Claims *)

Outcome(c) == <<c.state, c.value>>

Settled(id) == id \in DOMAIN calls /\ calls[id].state # "pending"

OutcomesKept == \A j \in DOMAIN calls : Outcome(calls'[j]) = Outcome(calls[j])

\* m is an 'rpc-response' that carries the correlation id of call id.
ResponseFor(id, m) == m.type = "rpc-response" /\ m.data.id = id

\* m is the '<event>-ack' that carries the ack id of call id.
AckFor(id, m) == m.type = AckType(calls[id].event) /\ m.data.id = id

TimedOut(id) == calls[id].state = "rejected" /\ calls[id].value = TimeoutError(calls[id].kind)

\* A step that handles an 'rpc-response' carrying the id of a settled rpc call.
LateResponseStep ==
    \E id \in DOMAIN calls, m \in InMessages :
        /\ Settled(id) /\ calls[id].kind = "rpc"
        /\ ResponseFor(id, m)
        /\ HandleIncomingMessage(m)

\* A step in which the timer of a settled call fires.
LateTimerStep == \E id \in DOMAIN calls : Settled(id) /\ TimerFire(id)

\* C1: an rpc call is settled at most once: a settled call keeps its outcome
\* in every step, and a response that carries the id of a settled call, or the
\* timer of a settled call, changes the outcome of no call.
C1_SettledOnce ==
    [][/\ \A id \in DOMAIN calls : Settled(id) => Outcome(calls'[id]) = Outcome(calls[id])
       /\ OutcomesKept \/ ~(LateResponseStep \/ LateTimerStep)]_vars

\* C1 witness: an rpc call rejected by its timeout whose listener is gone,
\* which only a response with its id handled after the timeout brings about.
C1_Witness ==
    \E id \in DOMAIN calls :
        /\ calls[id].kind = "rpc"
        /\ TimedOut(id)
        /\ id \notin Range(listeners)

\* C2: an rpc call without response is rejected with the timeout error once
\* 30 seconds have passed, and after the timeout its response listener is no
\* longer registered on LocalRelay.
C2_TimeoutReleasesEntry ==
    \A id \in DOMAIN calls : calls[id].kind = "rpc" =>
        /\ (calls[id].timer => now <= calls[id].start + RpcTimeoutMs)
        /\ (TimedOut(id) => now >= calls[id].start + RpcTimeoutMs)
        /\ (TimedOut(id) => id \notin Range(listeners))

\* C3: no pending-correlation entry is leaked: a listener still registered on
\* LocalRelay, or a timer still armed, belongs to a call that is not settled.
C3_NoLeakedEntries ==
    \A id \in DOMAIN calls :
        (id \in Range(listeners) \/ calls[id].timer) => calls[id].state = "pending"

\* C4: on the hub, the 'rpc-call' message of rpc(targetPeer, ...) is handed
\* to targetPeer and to no other known peer.
C4_RpcSentToTarget ==
    (lastSend.message.type = "rpc-call" /\ lastSend.asServer /\ ~lastSend.threw) =>
        LET target == lastSend.message.data.method
        IN /\ \A i \in DOMAIN lastSend.out : lastSend.out[i].peer = target
           /\ (target \in Range(PeerIds) => Len(lastSend.out) = 1)

\* C5: an emitWithAck call is pending no longer than 15 seconds; it is rejected
\* only by its timeout, at 15 seconds, with the timeout error; it is resolved
\* only by the ack that carries its ack id, with that ack's result, before the
\* timeout has fired, and once resolved it stays resolved with that result.
C5_AckState ==
    \A id \in DOMAIN calls : calls[id].kind = "ack" =>
        /\ (calls[id].state = "pending" =>
                calls[id].timer /\ now <= calls[id].start + AckTimeoutMs)
        /\ (calls[id].state = "rejected" =>
                TimedOut(id) /\ now >= calls[id].start + AckTimeoutMs)
        /\ (calls[id].state = "resolved" => ~calls[id].timer)

C5_AckStep ==
    \A id \in DOMAIN calls : calls[id].kind = "ack" =>
        /\ (calls[id].state = "pending" /\ calls'[id].state = "resolved") =>
              \E m \in InMessages :
                  /\ AckFor(id, m)
                  /\ HandleIncomingMessage(m)
                  /\ calls'[id].value = m.data.val
        /\ \A m \in InMessages :
              (/\ calls[id].state = "pending"
               /\ AckFor(id, m)
               /\ encryption /\ DecryptOk(m.data) /\ DecryptRaw(m.data).enc = 0
               /\ HandleIncomingMessage(m))
              => Outcome(calls'[id]) = <<"resolved", m.data.val>>
        /\ (calls[id].state = "pending" /\ calls'[id].state = "rejected") =>
              TimerFire(id)
        /\ calls[id].state = "resolved" => Outcome(calls'[id]) = Outcome(calls[id])

C5_AckTimeout == []C5_AckState /\ [][C5_AckStep]_vars

\* C5 witness: one emitWithAck call rejected by its timeout, another resolved
\* with the result of its ack.
C5_Witness ==
    \E a, b \in DOMAIN calls :
        /\ calls[a].kind = "ack" /\ TimedOut(a) /\ now = calls[a].start + AckTimeoutMs
        /\ calls[b].kind = "ack" /\ calls[b].state = "resolved" /\ calls[b].value = "acked"

Sent == lastSend # NoSend

SentTo == {lastSend.out[i].peer : i \in DOMAIN lastSend.out}

\* C6: a broadcast on the hub is handed once to every peer of the registry
\* except the sender, and never to the sender.
C6_BroadcastExcludesSender ==
    (Sent /\ lastSend.asServer /\ ~lastSend.threw /\ ~Truthy(lastSend.message.to)) =>
        /\ SentTo = Range(PeerIds) \ {lastSend.message.from}
        /\ Len(lastSend.out) = Cardinality(SentTo)
        /\ \A i \in DOMAIN lastSend.out : lastSend.out[i].ev = "messageSent"

\* C6 witness: a broadcast by a hub that is itself in the registry with two
\* other peers.
C6_Witness ==
    /\ Sent /\ lastSend.asServer /\ ~lastSend.threw
    /\ lastSend.message.to = Undefined
    /\ lastSend.message.from \in Range(PeerIds)
    /\ Cardinality(SentTo) = 2

\* C7: on a running hub a message with a target peer is handed to that peer
\* alone; with the target not in the registry it is handed to nobody, the
\* call does not fail, and the send leaves the relay running and the registry
\* as it was.
C7_TargetedState ==
    (Sent /\ lastSend.asServer /\ isRunning /\ Truthy(lastSend.message.to)) =>
        /\ ~lastSend.threw
        /\ isServer
        /\ IF lastSend.message.to \in Range(PeerIds)
           THEN /\ Len(lastSend.out) = 1
                /\ lastSend.out[1].peer = lastSend.message.to
                /\ lastSend.out[1].ev = "messageSent"
           ELSE lastSend.out = <<>>

C7_TargetedStep ==
    (lastSend' # NoSend) =>
        /\ peers' = peers
        /\ isRunning' = isRunning
        /\ isServer' = isServer

C7_TargetedOnly == []C7_TargetedState /\ [][C7_TargetedStep]_vars

\* C7 witness: a running hub with peers has dropped a message for a target
\* that is not in its registry.
C7_Witness ==
    /\ Sent /\ lastSend.asServer /\ isRunning
    /\ Truthy(lastSend.message.to)
    /\ peers # <<>>
    /\ lastSend.message.to \notin Range(PeerIds)
    /\ lastSend.out = <<>> /\ ~lastSend.threw

\* C8: every sendMessage of a running spoke, with or without target, makes
\* exactly one hand-off, to the hub, of the message as built.
C8_SpokeForwards ==
    (Sent /\ ~lastSend.asServer /\ isRunning) =>
        /\ ~lastSend.threw
        /\ lastSend.out = <<Timer("messageToServer", "server", lastSend.message)>>

\* C8 witness: a running spoke has sent a message with a target peer.
C8_Witness ==
    /\ Sent /\ ~lastSend.asServer /\ isRunning
    /\ Truthy(lastSend.message.to)
    /\ Len(lastSend.out) = 1

C10_PayloadEncrypted ==
    (Sent /\ ~lastSend.threw /\ DataTruthy(lastSend.message.data)) =>
        \A i \in DOMAIN lastSend.out :
            lastSend.out[i].message.data = EncryptRaw(lastSend.message.data)

\* m is an inbound message whose payload fails to decrypt.
FailsToDecrypt(m) == encryption /\ DataTruthy(m.data) /\ ~DecryptOk(m.data)

\* C11: an inbound message whose payload fails to decrypt is dropped: no type
\* handler is called, no 'message' event is emitted (no listener of a pending
\* call sees it: calls and listeners stay as they were), and the running
\* flag, the registry and the handler table stay as they were; a message
\* handled right after a dropped one, if it does not fail to decrypt itself,
\* is given to the handler of its type and emitted to the listeners.
C11_DropStep ==
    \A m \in InInbound :
        /\ (FailsToDecrypt(m) /\ HandleIncomingMessage(m)) =>
              /\ lastIn' = [dropped |-> TRUE, invoked |-> <<>>]
              /\ UNCHANGED <<isRunning, isServer, peers, messageHandlers, calls, listeners>>
        /\ (lastIn.dropped /\ ~FailsToDecrypt(m) /\ HandleIncomingMessage(m)) =>
              /\ ~lastIn'.dropped
              /\ lastIn'.invoked = HandlersFor(m.type)
              /\ LET r == Emit(listeners, m,
                               IF encryption /\ DataTruthy(m.data) THEN DecryptRaw(m.data)
                               ELSE m.data,
                               calls, listeners)
                 IN calls' = r.calls /\ listeners' = r.listeners

C11_DecryptFailureDrops == [][C11_DropStep]_vars

\* C11 witness: a running relay dropped a message while a handler was
\* registered for every handled type and a call was listening for its ack.
C11_Witness ==
    /\ lastIn.dropped
    /\ DOMAIN messageHandlers = HandledTypes
    /\ \E id \in Range(listeners) : calls[id].state = "pending"
    /\ isRunning

\* C12: the handler table keeps one handler per type, the last one registered:
\* an inbound message that is dispatched calls that handler once and no other
\* handler, whatever was registered for its type before and whatever is
\* registered for other types; onMessage changes the entry of its type only.
C12_DispatchStep ==
    /\ \A m \in InInbound : (~FailsToDecrypt(m) /\ HandleIncomingMessage(m)) =>
          lastIn'.invoked = (IF m.type \in DOMAIN messageHandlers
                             THEN <<messageHandlers[m.type]>> ELSE <<>>)
    /\ \A t \in HandledTypes, h \in HandlerNames : OnMessage(t, h) =>
          /\ messageHandlers'[t] = h
          /\ \A u \in DOMAIN messageHandlers' \ {t} :
                u \in DOMAIN messageHandlers /\ messageHandlers'[u] = messageHandlers[u]
          /\ DOMAIN messageHandlers' = DOMAIN messageHandlers \cup {t}

C12_OneHandlerPerType == [][C12_DispatchStep]_vars

\* C12 witness: h1 was registered for 'peer-notification' and replaced by h2,
\* h1 is still the handler of 'voice-message', and a 'peer-notification' was
\* dispatched to h2 alone.
C12_Witness ==
    /\ <<"peer-notification", "h1">> \in displaced
    /\ "peer-notification" \in DOMAIN messageHandlers
    /\ messageHandlers["peer-notification"] = "h2"
    /\ "voice-message" \in DOMAIN messageHandlers
    /\ messageHandlers["voice-message"] = "h1"
    /\ lastIn.invoked = <<"h2">>

\* The number of the sendMessage call that made a message of the ordered sender.
CallNo(type) == CHOOSE n \in 1..MaxSends : MsgType(n) = type

\* C13: messages of one device to one receiver are handed over in the order
\* of their sendMessage calls: the hand-off that fires is the one of the
\* earliest call among the hand-offs pending for its receiver.
C13_FifoPerReceiver ==
    [][\A i \in DOMAIN transport : TransportFire(i) =>
          \A j \in DOMAIN transport :
              (j # i /\ transport[j].peer = transport[i].peer) =>
                  CallNo(transport[i].type) < CallNo(transport[j].type)]_vars

\* The device state a join writes: configuration, storage, status, credentials.
JoinState == <<nmConfig, nmStorage, nmStatus, credentials>>

\* C14: NebulaAuth.joinNetwork of a payload whose timestamp is more than five
\* minutes before the time of the call returns success = false and leaves
\* configuration, storage, status and credentials as they were; for a
\* payload of version '1.0' the error is the expired-QR message.
C14_ExpiredRejected ==
    [][\A q \in AllQrs :
          (AuthJoinNetwork(q) /\ q.auth /\ q.timestamp < now - 300000) =>
              /\ ~lastAuth'.success
              /\ lastAuth'.op = "joinNetwork"
              /\ q.version = "1.0" => lastAuth'.error = "QR code has expired"
              /\ UNCHANGED JoinState]_vars

\* C14 witness: a device without configuration was given an expired payload
\* of a hub and is still without configuration and credentials.
C14_Witness ==
    /\ lastAuth = AuthResult("joinNetwork", FALSE, "QR code has expired", NoQr)
    /\ nmConfig = NoConfig
    /\ nmStatus.status = "disconnected"
    /\ credentials = "null"

\* C15: NebulaAuth.joinNetwork of a payload a hub issued at most five minutes
\* ago succeeds, and the caCert of the configuration it stores is the root
\* certificate of the hub's network.
C15_RootCertificateKept ==
    [][\A q \in HubQrs :
          (AuthJoinNetwork(q) /\ now - q.timestamp <= MaxAgeMs) =>
              /\ lastAuth'.success
              /\ nmConfig'.caCert = q.net
              /\ nmStorage'.caCert = q.net]_vars

\* C16: NebulaAuth.joinNetwork of a payload whose signature does not verify
\* is rejected with an invalid-signature error: no credentials are stored
\* and the device does not join.
C16_SignatureVerified ==
    [][\A q \in AllQrs :
          (AuthJoinNetwork(q) /\ q.auth /\ ~q.sigValid) =>
              /\ ~lastAuth'.success
              /\ UNCHANGED JoinState]_vars

\* C17: a payload whose version is not '1.0' is rejected by both consumers,
\* NebulaAuth.joinNetwork and NebulaManager.joinNetwork, with configuration,
\* storage, status and credentials unchanged.
C17_VersionRejected ==
    [][\A q \in AllQrs :
          (q.version # "1.0" /\ (AuthJoinNetwork(q) \/ JoinNetwork(q))) =>
              /\ ~lastAuth'.success
              /\ UNCHANGED JoinState]_vars

\* The device holds the root of a network: it has a configuration, and that
\* is the configuration of a lighthouse.
IsHub == nmConfig # NoConfig /\ nmConfig.isLighthouse

\* C18: on a device that is not the hub, generateAddDeviceQR and getJoinQRData
\* fail with their only-lighthouse error and return no payload, and so would
\* generateJoinQRData with the configuration of the device; every payload
\* an operation returns comes from a device that is the hub.
C18_Step ==
    /\ (GenerateAddDeviceQR /\ ~IsHub) =>
           lastAuth' = AuthResult("generateAddDeviceQR", FALSE,
                                  "Only lighthouse can generate device addition QR codes",
                                  NoQr)
    /\ (GetJoinQRData /\ ~IsHub) =>
           lastAuth' = AuthResult("getJoinQRData", FALSE,
                                  "Only lighthouse can generate join QR data", NoQr)
    /\ (lastAuth' # lastAuth /\ lastAuth'.qr # NoQr) => IsHub'

C18_State ==
    ~IsHub =>
        /\ ~GenerateJoinQRData(nmConfig).success
        /\ GenerateJoinQRData(nmConfig).qr = NoQr

C18_OnlyHubCreatesTokens == []C18_State /\ [][C18_Step]_vars

\* C18 witness: a connected device that joined a network was refused a payload.
C18_Witness ==
    /\ lastAuth.op \in {"generateAddDeviceQR", "getJoinQRData"}
    /\ ~lastAuth.success
    /\ nmStatus.status = "connected"
    /\ nmConfig # NoConfig /\ ~nmConfig.isLighthouse

\* Private key material of a device.
PrivateKeys == {NodeKey, "CA_KEY_random"}

\* C19: no payload returned by setupAsCA, generateJoinQRData, setupAsLighthouse
\* or generateAddDeviceQR carries private key material.
C19_NoPrivateKeyInPayload ==
    lastAuth.qr # NoQr =>
        /\ lastAuth.qr.caKey \notin PrivateKeys
        /\ lastAuth.qr.caCert \notin PrivateKeys

\* C20: the address a join gives this device is not one of the addresses the
\* other devices of the mesh hold, and the address a join gives another
\* device is neither one of those nor the address of this device.
C20_State ==
    (nmStatus.status = "connected" /\ ~nmConfig.isLighthouse) =>
        nmStatus.nodeIP \notin allocated

C20_Step ==
    \A os \in OtherPlatforms : (OtherDeviceJoins(os) /\ allocated' # allocated) =>
        RequestNodeIPOf(os) \notin allocated

C20_NoAddressCollision == []C20_State /\ [][C20_Step]_vars

\* C21: the device that creates the network with setupAsCA holds 10.42.0.1,
\* in its configuration, its storage and its status, and a join through
\* joinNetwork, on this device or on another device of the mesh, never
\* assigns 10.42.0.1.
C21_Step ==
    /\ SetupAsCA =>
          /\ nmConfig'.nodeIP = "10.42.0.1"
          /\ nmStorage'.nodeIP = "10.42.0.1"
          /\ nmStatus'.nodeIP = "10.42.0.1"
    /\ \A q \in AllQrs :
          ((JoinNetwork(q) \/ AuthJoinNetwork(q)) /\ lastAuth'.success) =>
              /\ nmConfig'.nodeIP # "10.42.0.1"
              /\ nmStorage'.nodeIP # "10.42.0.1"
              /\ nmStatus'.nodeIP # "10.42.0.1"

C21_HubHoldsFirstAddress ==
    /\ []("10.42.0.1" \notin allocated)
    /\ [][C21_Step]_vars

\* C21 witness: a device that had created a network joined another one and
\* was given an address other than 10.42.0.1, as were three other devices.
C21_Witness ==
    /\ lastAuth.op \in {"NebulaManager.joinNetwork", "joinNetwork"}
    /\ lastAuth.success
    /\ nmConfig.nodeIP \in {"10.42.0.2", "10.42.0.3", "10.42.0.4"}
    /\ nmStatus.nodeIP = nmConfig.nodeIP
    /\ credentials = "networkSecret"
    /\ Cardinality(allocated) = 3

InRegistry(reg, ip) == \E i \in DOMAIN reg : reg[i].id = ip

\* The number of events ev about peer ip among the events of a step.
EventCount(events, ev, ip) ==
    Cardinality({i \in DOMAIN events : events[i] = PeerEvent(ev, ip)})

\* C22: with the socket listening, a step emits 'peerConnected' for a peer
\* once if the peer enters the registry in that step and not at all
\* otherwise; an observation of a peer that is already in the registry
\* emits no 'peerConnected' for it, sets its lastSeen to the time of the
\* observation and leaves its connectedAt as it was.
C22_Step ==
    peerListeners =>
        /\ \A ip \in MeshIPs :
              EventCount(emitted', "peerConnected", ip) =
                  (IF ~InRegistry(peers, ip) /\ InRegistry(peers', ip) THEN 1 ELSE 0)
        /\ \A arr \in PeerArrays : \A i \in DOMAIN peers :
              (MonitorPeers(arr) /\ monitors > 0 /\ peers[i].id \in Range(arr)) =>
                  /\ EventCount(emitted', "peerConnected", peers[i].id) = 0
                  /\ \E j \in DOMAIN peers' :
                        peers'[j] = [peers[i] EXCEPT !.lastSeen = now]

C22_ConnectedOncePerEntry == [][C22_Step]_vars

\* C22 witness: a peer that entered the registry earlier was observed again,
\* together with a new peer: its lastSeen is later than its connectedAt, and
\* the step emitted 'peerConnected' for the new peer alone.
C22_Witness ==
    /\ peerListeners
    /\ emitted = <<PeerEvent("peerConnected", "10.42.0.3")>>
    /\ \E i \in DOMAIN peers :
          /\ peers[i].id = "10.42.0.2"
          /\ peers[i].lastSeen > peers[i].connectedAt
    /\ Len(peers) = 2

\* C23: a sweep at time now keeps, as it is, every peer with
\* now - lastSeen < 60 s and emits no event for it; it removes every peer
\* with now - lastSeen > 60 s and emits 'peerDisconnected' for it once; it
\* emits nothing else.
C23_Step ==
    (SweepTick /\ monitors > 0) =>
        /\ \A i \in DOMAIN peers :
              LET p == peers[i]
                  age == now' - p.lastSeen
              IN /\ age < 60000 =>
                       /\ p \in Range(peers')
                       /\ \A k \in DOMAIN emitted' : emitted'[k].peer # p.id
                 /\ age > 60000 =>
                       /\ ~InRegistry(peers', p.id)
                       /\ peerListeners =>
                             EventCount(emitted', "peerDisconnected", p.id) = 1
        /\ \A k \in DOMAIN emitted' :
              /\ emitted'[k].ev = "peerDisconnected"
              /\ InRegistry(peers, emitted'[k].peer)
        /\ \A j \in DOMAIN peers' : peers'[j] \in Range(peers)

C23_SweepRemovesStale == [][C23_Step]_vars

\* C23 witness: the status still names two peers, both were in the registry
\* through two sweeps, and the sweep at 90 s removed both, with one
\* 'peerDisconnected' each.
C23_Witness ==
    /\ now = 90000
    /\ nmStatus.peers = <<"10.42.0.2", "10.42.0.3">>
    /\ peers = <<>>
    /\ emitted = <<PeerEvent("peerDisconnected", "10.42.0.2"),
                   PeerEvent("peerDisconnected", "10.42.0.3")>>

\* C24: LocalRelay.stop leaves no peer-monitoring subscription and no sweep
\* timer, and there is never more than one of them.
C24_StopLeavesNoTimers ==
    /\ [](monitors <= 1)
    /\ [][RelayStop => monitors' = 0]_vars

\* C25: onStatusChange calls the new listener once, with the current status;
\* while it is subscribed the listener is called with every status that is
\* published, in the order published (setupAsCA and joinNetwork publish
\* 'connecting' and then their result), so the last status it received is
\* the current one; once unsubscribed it is called no more.
C25_State ==
    subscribed =>
        /\ Len(received) = Len(published) + 1
        /\ \A i \in DOMAIN published : received[i + 1] = published[i]
        /\ received[Len(received)] = nmStatus

C25_Step ==
    /\ OnStatusChange => received' = <<nmStatus>>
    /\ (~subscribed /\ ~subscribed') => received' = received
    /\ (subscribed /\ subscribed' /\ (SetupAsCA \/ \E q \in AllQrs : JoinNetwork(q))) =>
          received' = received \o <<Connecting, nmStatus'>>
    /\ (subscribed /\ subscribed' /\ (NebulaStop \/ NmInitialize)) =>
          received' = Append(received, nmStatus')

C25_ListenerSeesEveryStatus == []C25_State /\ [][C25_Step]_vars

\* C25 witness: the listener subscribed on a disconnected device, saw
\* setupAsCA go through 'connecting' to 'connected', unsubscribed, and was
\* not called with the 'disconnected' status published after that.
C25_Witness ==
    /\ ~subscribed
    /\ received = <<Status("disconnected", Undefined, <<>>, "", Undefined), Connecting,
                    Status("connected", "10.42.0.1", <<>>, "", Undefined)>>
    /\ nmStatus.status = "disconnected"
    /\ nmConfig = HubConfig

\* A step in which setupAsCA or NebulaManager.joinNetwork fails.
FailedOperation ==
    \/ \E step \in {"generate", "save"} : SetupAsCAFails(step)
    \/ \E message \in ParseErrors : JoinNetworkInvalid(message)
    \/ \E q \in AllQrs : JoinNetworkSaveFails(q)

\* C26: when setupAsCA or NebulaManager.joinNetwork fails, the caller gets
\* the error, and the status published last is 'error' with that error's
\* message, which is not empty; the operation does not end 'connected'.
C26_FailurePublishesError ==
    [][FailedOperation =>
          /\ ~lastAuth'.success
          /\ lastAuth'.op \in {"setupAsCA", "NebulaManager.joinNetwork"}
          /\ lastAuth'.error # ""
          /\ nmStatus'.status = "error"
          /\ nmStatus'.status # "connected"
          /\ nmStatus'.error = lastAuth'.error
          /\ subscribed => received'[Len(received')] = nmStatus']_vars

\* C26 witness: setupAsCA failed at saveConfig on a device that was connected
\* as a joiner: the configuration is the new one, the storage the old one,
\* and the listener saw 'connecting' and then the error.
C26_Witness ==
    /\ lastAuth = AuthResult("setupAsCA", FALSE, StorageError, NoQr)
    /\ nmStatus = Status("error", Undefined, <<>>, StorageError, Undefined)
    /\ nmConfig = HubConfig
    /\ nmStorage # NoConfig /\ ~nmStorage.isLighthouse
    /\ subscribed
    /\ Len(received) >= 3
    /\ received[Len(received) - 1] = Connecting
    /\ received[Len(received)] = nmStatus

\* The first eight digits of the secret for each input of the model, as the
\* JavaScript of deriveSharedSecret gives them: <<challenge, signature,
\* publicKey, digits>>.
ReferenceDigits ==
    {
      <<<<>>, <<0>>, <<>>, <<0, 0, 0, 0, 0, 0, 0, 0>>>>,
      <<<<>>, <<0>>, <<18, 52, 86, 120, 154>>, <<0, 1, 1, 6, 9, 12, 5, 6>>>>,
      <<<<>>, <<255, 255, 255, 255>>, <<>>, <<0, 0, 7, 7, 12, 7, 12, 0>>>>,
      <<<<>>, <<255, 255, 255, 255>>, <<18, 52, 86, 120, 154>>, <<7, 0, 15, 10, 5, 3, 6, 10>>>>,
      <<<<1, 2>>, <<0>>, <<>>, <<0, 0, 0, 0, 0, 3, 15, 15>>>>,
      <<<<1, 2>>, <<0>>, <<18, 52, 86, 120, 154>>, <<2, 13, 3, 11, 12, 0, 4, 9>>>>,
      <<<<1, 2>>, <<255, 255, 255, 255>>, <<>>, <<0, 2, 4, 8, 12, 15, 6, 1>>>>,
      <<<<1, 2>>, <<255, 255, 255, 255>>, <<18, 52, 86, 120, 154>>, <<0, 12, 7, 13, 4, 1, 9, 5>>>>,
      <<<<255, 255, 255, 255>>, <<0>>, <<>>, <<0, 14, 8, 1, 3, 0, 4, 0>>>>,
      <<<<255, 255, 255, 255>>, <<0>>, <<18, 52, 86, 120, 154>>, <<3, 1, 0, 9, 9, 4, 1, 6>>>>,
      <<<<255, 255, 255, 255>>, <<255, 255, 255, 255>>, <<>>, <<1, 3, 11, 10, 5, 0, 8, 0>>>>,
      <<<<255, 255, 255, 255>>, <<255, 255, 255, 255>>, <<18, 52, 86, 120, 154>>, <<7, 2, 7, 2, 9, 12, 13, 6>>>>
    }

\* C27: the secret of deriveSharedSecret is 64 hexadecimal digits, eight
\* times the magnitude of the wrapped 32-bit hash in eight zero-padded
\* digits, and depends on challenge, signature and public key alone: a
\* later call with the same three buffers gives the same secret.
C27_DerivedSecretShape ==
    derived # NoDerived =>
        /\ Len(derived.secret) = 64
        /\ \A i \in 1..64 : derived.secret[i] \in 0..15
        /\ \A i \in 9..64 : derived.secret[i] = derived.secret[i - 8]
        /\ <<derived.challenge, derived.signature, derived.publicKey,
              SubSeq(derived.secret, 1, 8)>> \in ReferenceDigits
        /\ \A m \in memo :
              (m[1] = derived.challenge /\ m[2] = derived.signature
               /\ m[3] = derived.publicKey) => m[4] = derived.secret

\* C27 witness: a secret whose hash wrapped to a negative number, derived a
\* second time, later, from the same buffers.
C27_Witness ==
    /\ derived.challenge = <<255, 255, 255, 255>>
    /\ derived.signature = <<255, 255, 255, 255>>
    /\ derived.publicKey = <<>>
    /\ SubSeq(derived.secret, 1, 8) = <<1, 3, 11, 10, 5, 0, 8, 0>>
    /\ derived.at > 0
    /\ \E m \in memo : m[1] = derived.challenge /\ m[2] = derived.signature
                        /\ m[3] = derived.publicKey

\* C28: NebulaAuth.joinNetwork keeps no record of the payloads it consumed:
\* a payload a hub issued at most five minutes ago is accepted whether or
\* not the device has consumed it before, each time with the same derived
\* credentials.
C28_ReplayAccepted ==
    [][\A q \in HubQrs :
          (AuthJoinNetwork(q) /\ now - q.timestamp <= MaxAgeMs) =>
              /\ lastAuth' = AuthResult("joinNetwork", TRUE, "", NoQr)
              /\ nmStatus'.status = "connected"
              /\ credentials' = DeriveCredentialsFromQR(q)
              /\ consumed.qr = q => consumed'.n = consumed.n + 1]_vars

\* C28 witness: the device has consumed one payload of a hub twice in a row
\* and is connected.
C28_Witness ==
    /\ consumed.qr \in HubQrs
    /\ consumed.n = 2
    /\ lastAuth = AuthResult("joinNetwork", TRUE, "", NoQr)
    /\ nmStatus.status = "connected"

\* C29: a payload given to LocalRelay.sendMessage reaches the handler of a
\* receiving device that uses the same encryption collaborator unchanged:
\* for every hand-off to the transport, handleIncomingMessage on the receiver
\* does not drop the message and dispatches the payload that was sent, on a
\* hub and on a spoke alike.
C29_PayloadRoundTrip ==
    (Sent /\ ~lastSend.threw /\ DataTruthy(lastSend.message.data)) =>
        \A i \in DOMAIN lastSend.out :
            /\ ~Dropped(lastSend.out[i].message)
            /\ DispatchedData(lastSend.out[i].message) = lastSend.message.data

\* C30: every rpc and emitWithAck call eventually settles: a call whose
\* timeout falls within the time observed is resolved or rejected in the end,
\* whatever the order of the response's arrival, a failure to decrypt the
\* response's result, and the firing of the timer.
C30_EveryCallSettles ==
    \A id \in 1..MaxCalls :
        [](id \in DOMAIN calls /\ calls[id].due <= MaxNow => <>Settled(id))

\* The outcome the claim gives a pending rpc call for its response d.
ResponseOutcome(d) ==
    IF d.ok THEN <<"resolved", d.val>>
    ELSE <<"rejected", IF d.val # "" THEN d.val ELSE "RPC call failed">>

\* Call id is a pending rpc call and d carries its correlation id.
PendingFor(id, d) ==
    /\ calls[id].kind = "rpc"
    /\ calls[id].state = "pending"
    /\ d.enc = 0
    /\ d.id = id

\* C31: with several rpc calls pending, an 'rpc-response' that is dispatched
\* settles exactly the pending call whose correlation id it carries: an ok
\* response resolves that call, a non-ok response rejects it with the
\* response's error, and the outcome of every other call is left as it was.
C31_ResponseSettlesItsCall ==
    [][\A m \in InMessages :
          (/\ HandleIncomingMessage(m)
           /\ m.type = "rpc-response"
           /\ ~Dropped(m)
           /\ DataTruthy(DispatchedData(m))) =>
              \A id \in DOMAIN calls :
                  IF PendingFor(id, DispatchedData(m))
                  THEN Outcome(calls'[id]) = ResponseOutcome(DispatchedData(m))
                  ELSE Outcome(calls'[id]) = Outcome(calls[id])]_vars

\* C32: the hub performs the fan-out for the messages it receives: when a
\* message of a spoke reaches the hub and is not dropped, the hub hands it to
\* its target peer if it has one, and otherwise to every known peer except
\* the spoke it came from.
C32_HubFansOutReceived ==
    [][\A m \in InForwarded :
          (HandleIncomingMessage(m) /\ isServer /\ isRunning /\ ~Dropped(m)) =>
              LET tg == RouteTargets(m)
              IN \A i \in DOMAIN tg :
                     \E j \in DOMAIN transport' :
                         /\ j > Len(transport)
                         /\ transport'[j].ev = "messageSent"
                         /\ transport'[j].peer = tg[i]
                         /\ transport'[j].type = m.type]_vars

\* C33: while the relay is running, a step removes no peer whose lastSeen is
\* less than 60 seconds old: whatever the step (an observation, a status
\* update of NebulaManager, a sweep), such a peer is still in the registry
\* after it.
C33_FreshPeerKept ==
    [][(isRunning /\ isRunning') =>
          \A i \in DOMAIN peers :
              now' - peers[i].lastSeen < StaleTimeoutMs =>
                  InRegistry(peers', peers[i].id)]_vars

\* C34: with the socket listening, every step that removes a peer from the
\* registry (a sweep, a peer-list update, LocalRelay.stop) emits
\* 'peerDisconnected' for that peer exactly once.
C34_RemovalEmitsDisconnected ==
    [][peerListeners =>
          \A ip \in MeshIPs :
              (InRegistry(peers, ip) /\ ~InRegistry(peers', ip)) =>
                  EventCount(emitted', "peerDisconnected", ip) = 1]_vars

\* C35, as claimed: once a peer has been removed and 'peerDisconnected'
\* emitted for it, no later step puts it back into the registry or emits
\* another 'peerConnected' for it.
C35_RemovedIsTerminal ==
    [][\A ip \in departed :
          ~InRegistry(peers, ip) =>
              /\ ~InRegistry(peers', ip)
              /\ EventCount(emitted', "peerConnected", ip) = 0]_vars

\* C35, amended: the removed record is gone for good, the peer is not.  An
\* observation of a removed peer puts a new record into the registry, with
\* connectedAt and lastSeen at the time of the observation, and emits
\* 'peerConnected' for it once; a removed peer enters the registry in no
\* other way.
C35_Step ==
    \A ip \in departed :
        /\ \A arr \in PeerArrays :
              (/\ MonitorPeers(arr) /\ monitors > 0
               /\ ~InRegistry(peers, ip) /\ ip \in Range(arr)) =>
                  InRegistry(peers', ip)
        /\ (~InRegistry(peers, ip) /\ InRegistry(peers', ip)) =>
              /\ Peer(ip, now') \in Range(peers')
              /\ EventCount(emitted', "peerConnected", ip) = 1
              /\ ip \in Range(nmStatus'.peers)

C35_RemovedPeerReenters == [][C35_Step]_vars

\* C35 witness: peer 10.42.0.2 was announced as disconnected, time went on,
\* and the last step observed it again: it is back in the registry with a
\* record made in that step, announced with one 'peerConnected'.
C35_Witness ==
    /\ "10.42.0.2" \in departed
    /\ now > 0
    /\ Peer("10.42.0.2", now) \in Range(peers)
    /\ emitted = <<PeerEvent("peerConnected", "10.42.0.2")>>

\* C36: logout goes on with its cleanup when a step fails: whichever step
\* throws, logout returns normally and every other step has been carried out
\* (NebulaManager stopped, the stored credentials removed, the configuration
\* and its saved copy cleared).
C36_LogoutCompletesCleanup ==
    [][\A f \in LogoutFailures :
          Logout(f) =>
              /\ lastAuth' = AuthResult("logout", TRUE, "", NoQr)
              /\ f # "stop" => nmStatus'.status = "disconnected"
              /\ f # "remove" => credentials' = "null"
              /\ f # "reset" => (nmConfig' = NoConfig /\ nmStorage' = NoConfig)]_vars

\* C37: the function onMessage(type, h) returned removes only the
\* registration of h: called after another handler has replaced h for the
\* type, it leaves that handler registered, and inbound messages of the type
\* are still dispatched to it.
C37_StaleUnsubscribeKeepsHandler ==
    [][\A t \in HandledTypes, h \in HandlerNames :
          (/\ UnsubscribeOf(t, h)
           /\ <<t, h>> \in displaced
           /\ messageHandlers[t] # h) =>
              /\ t \in DOMAIN messageHandlers'
              /\ messageHandlers'[t] = messageHandlers[t]
              /\ HandlersFor(t)' = <<messageHandlers[t]>>]_vars

\* C38: a published status 'connected' carries a nodeIP, the nodeIP of the
\* active configuration; a status 'disconnected' or 'error' carries none.
C38_ConnectedHasNodeIP ==
    /\ nmStatus.status = "connected" =>
          /\ Truthy(nmStatus.nodeIP)
          /\ nmConfig # NoConfig
          /\ nmStatus.nodeIP = nmConfig.nodeIP
    /\ nmStatus.status \in {"disconnected", "error"} => ~Truthy(nmStatus.nodeIP)

\* C39: whenever the status of NebulaSocket is 'connected', LocalRelay is
\* running (isReady() is true), so that sendMessage accepts messages.
C39_ConnectedMeansReady == currentStatus = "connected" => isRunning

\* A step in which NebulaAuth.joinNetwork returns success = false.
FailedJoin ==
    /\ \/ \E q \in AllQrs : AuthJoinNetwork(q)
       \/ \E q \in AllQrs, step \in JoinFailSteps : AuthJoinNetworkFails(q, step)
    /\ ~lastAuth'.success

C40_Step ==
    /\ FailedJoin => credentials' = credentials
    /\ \A q \in AllQrs :
          /\ (AuthJoinNetwork(q) /\ ~lastAuth'.success) =>
                UNCHANGED <<nmConfig, nmStorage, nmStatus>>
          /\ \A step \in JoinFailSteps \ {"store"} :
                AuthJoinNetworkFails(q, step) =>
                    /\ nmStorage' = nmStorage
                    /\ nmStatus'.status = "error"
                    /\ nmStatus'.error = lastAuth'.error
          /\ AuthJoinNetworkFails(q, "store") =>
                /\ nmStorage' = nmConfig'
                /\ nmConfig'.caCert = q.caCert
                /\ nmStatus'.status = "connected"
                /\ nmStatus'.nodeIP = nmConfig'.nodeIP

====
